---- MODULE Spec2Model ----
(***************************************************************************)
(* Build calculation engine of Parametric: the drain/capacity engine       *)
(* (src/client/utils/drain.ts), the forma counter                          *)
(* (src/client/utils/formaCounter.ts), the elemental combination engine    *)
(* (src/client/utils/elements.ts), the mod effect parser and stat          *)
(* aggregator (utils/modStatParser) and the riven verifier (utils/riven).  *)
(*                                                                         *)
(* The engine is a set of pure functions.  Each one is modelled as an      *)
(* operator computed the way the code computes it, and is exercised by a   *)
(* specification of its own: Init draws the arguments of one call from a   *)
(* bounded set, the action evaluates the function and stores what it       *)
(* returns.                                                                *)
(*                                                                         *)
(* Optional values (`x?: T`): an optional string is the string or          *)
(* undefined; an optional number or object is <<>> (undefined) or <<v>>.   *)
(***************************************************************************)
EXTENDS Integers, Sequences, FiniteSets, TLC

VARIABLES
    pc,     \* "call" before the function under study has run, "done" after
    args,   \* the arguments of the call, a record
    ret     \* the value returned (meaningful when pc = "done")

vars == <<pc, args, ret>>

-----------------------------------------------------------------------------
(* Bounds of the explored inputs *)

MaxDrain == 10
MaxFusion == 6
RankSlack == 1
MaxSlots == 2
MaxLayout == 2
MaxKeysLayout == 1
MaxMods == 2
MaxSequence == 3
MaxLines == 2
MaxBlocks == 2
MaxEquipped == 3
MaxSaves == 1

MaxCalls == 2

MaxTicks == 4

-----------------------------------------------------------------------------
(* src/client/types/warframe.ts *)

AP_ATTACK == "AP_ATTACK"
AP_DEFENSE == "AP_DEFENSE"
AP_TACTIC == "AP_TACTIC"
AP_WARD == "AP_WARD"
AP_POWER == "AP_POWER"
AP_PRECEPT == "AP_PRECEPT"
AP_UMBRA == "AP_UMBRA"
AP_ANY == "AP_ANY"

REGULAR_POLARITIES ==
    <<AP_ATTACK, AP_DEFENSE, AP_TACTIC, AP_WARD, AP_POWER, AP_PRECEPT>>

\* keyof typeof POLARITIES
PolarityKey ==
    {AP_ATTACK, AP_DEFENSE, AP_TACTIC, AP_WARD, AP_POWER, AP_PRECEPT,
     AP_UMBRA, AP_ANY}

SlotType == {"general", "aura", "stance", "exilus", "posture"}

\* the value of an absent optional string
undefined == "undefined"

\* `!p` for p: string | undefined
Falsy(p) == p = undefined \/ p = ""

-----------------------------------------------------------------------------
(* JavaScript Math on the values the engine feeds it *)

MathAbs(x) == IF x < 0 THEN -x ELSE x

MathMin(x, y) == IF x < y THEN x ELSE y

MathMax(x, y) == IF x > y THEN x ELSE y

\* Math.floor in place of Math.ceil
MathCeilHalf_floor(x) == x \div 2

\* Math.ceil(x / 2) for an integer x
MathCeilHalf(x) == -((-x) \div 2)

\* Math.floor in place of Math.round
MathRoundQuarter_floor(x) == x \div 4

\* Math.ceil in place of Math.round
MathRoundQuarter_ceil(x) == -((-x) \div 4)

\* Math.round(x * 0.25) for an integer x: floor(x / 4 + 1 / 2); x * 0.25 is
\* exact in binary floating point
MathRoundQuarter(x) == (x + 2) \div 4

-----------------------------------------------------------------------------
(* src/client/utils/drain.ts *)

\* the universal/umbra exception left out
polarityMatchResult_noNeutral(a, b) ==
    IF a = b THEN "match"
    ELSE IF a = AP_ANY \/ b = AP_ANY THEN "match"
    ELSE "mismatch"

\* the universal polarity looked for on the slot only
polarityMatchResult_slotOnly(a, b) ==
    IF a = b THEN "match"
    ELSE IF a = AP_ANY
         THEN IF b = AP_UMBRA THEN "neutral" ELSE "match"
         ELSE "mismatch"

polarityMatchResult(a, b) ==
    IF a = b THEN "match"
    ELSE IF a = AP_ANY \/ b = AP_ANY
         THEN IF a = AP_UMBRA \/ b = AP_UMBRA THEN "neutral" ELSE "match"
         ELSE "mismatch"

isCapacitySlot(type) == type = "aura" \/ type = "stance" \/ type = "posture"

calculateEffectiveDrain(baseDrain, modRank, fusionLimit, slotPolarity, modPolarity, slotType) ==
    LET clampedRank == MathMin(modRank, fusionLimit)
        absDrain == MathAbs(baseDrain) + clampedRank
        result == polarityMatchResult(slotPolarity, modPolarity)
    IN  IF Falsy(slotPolarity) \/ Falsy(modPolarity)
        THEN IF isCapacitySlot(slotType) THEN -absDrain ELSE absDrain
        ELSE IF result = "neutral"
        THEN IF isCapacitySlot(slotType) THEN -absDrain ELSE absDrain
        ELSE IF result = "match"
        THEN IF isCapacitySlot(slotType)
             THEN -(absDrain * 2)
             ELSE MathCeilHalf(absDrain)
        ELSE IF isCapacitySlot(slotType)
             THEN -(absDrain - MathRoundQuarter(absDrain))
             ELSE absDrain + MathRoundQuarter(absDrain)

\* `a ?? b` on optional values
Nullish(a, b) == IF a = <<>> THEN b ELSE a

\* an absent rank read as rank 0
slotDrain_rankZero(slot) ==
    LET mod == slot.mod[1]
    IN  calculateEffectiveDrain(
            Nullish(mod.base_drain, <<0>>)[1],
            Nullish(slot.rank, <<0>>)[1],
            Nullish(mod.fusion_limit, <<0>>)[1],
            slot.polarity, mod.polarity, slot.type)

\* the call of calculateEffectiveDrain inside the loop, for an occupied slot
slotDrain(slot) ==
    LET mod == slot.mod[1]
    IN  calculateEffectiveDrain(
            Nullish(mod.base_drain, <<0>>)[1],
            Nullish(slot.rank, Nullish(mod.fusion_limit, <<0>>))[1],
            Nullish(mod.fusion_limit, <<0>>)[1],
            slot.polarity, mod.polarity, slot.type)

\* the for loop: acc = [capacityBonus, totalDrain] after slots i..Len(slots)
RECURSIVE capacityLoop(_, _, _)
capacityLoop(slots, i, acc) ==
    IF i > Len(slots) THEN acc
    ELSE IF slots[i].mod = <<>> THEN capacityLoop(slots, i + 1, acc)
    ELSE LET drain == slotDrain(slots[i])
         IN  IF drain < 0
             THEN capacityLoop(slots, i + 1,
                      [acc EXCEPT !.capacityBonus = @ + MathAbs(drain)])
             ELSE capacityLoop(slots, i + 1,
                      [acc EXCEPT !.totalDrain = @ + drain])

DefaultBaseCapacity == 30

calculateTotalCapacity(slots, baseCapacityArg, orokinReactorArg) ==
    LET baseCapacity == Nullish(baseCapacityArg, <<DefaultBaseCapacity>>)[1]
        orokinReactor == Nullish(orokinReactorArg, <<FALSE>>)[1]
        effectiveBase == IF orokinReactor THEN baseCapacity * 2
                         ELSE baseCapacity
        acc == capacityLoop(slots, 1, [capacityBonus |-> 0, totalDrain |-> 0])
    IN  [baseCapacity |-> effectiveBase,
         capacityBonus |-> acc.capacityBonus,
         totalDrain |-> acc.totalDrain,
         remaining |-> effectiveBase + acc.capacityBonus - acc.totalDrain]

-----------------------------------------------------------------------------
(* src/client/utils/formaCounter.ts *)

\* Map.get(key) || 0
MapGet(counts, key) == IF key \in DOMAIN counts THEN counts[key] ELSE 0

\* the Map from each truthy polarity of the list to its number of occurrences
\* every polarity of the layout counted once, however often it occurs
countMultiset_distinct(polarities) ==
    LET keys == { polarities[i] : i \in 1..Len(polarities) }
    IN  [ k \in { p \in keys : ~Falsy(p) } |-> 1 ]

countMultiset(polarities) ==
    LET keys == { polarities[i] : i \in 1..Len(polarities) }
    IN  [ k \in { p \in keys : ~Falsy(p) } |->
            Cardinality({ i \in 1..Len(polarities) : polarities[i] = k }) ]

RECURSIVE SumOverKeys(_, _, _)
\* let total = 0; for (const key of keys) total += term[key]
SumOverKeys(keys, term, total) ==
    IF keys = {} THEN total
    ELSE LET key == CHOOSE k \in keys : TRUE
         IN  SumOverKeys(keys \ {key}, term, total + term[key])

\* the net additions summed where the reuse should be
totalReused_netNew(defaultCounts, desiredCounts) ==
    LET allKeys == DOMAIN defaultCounts \cup DOMAIN desiredCounts
        term == [ key \in allKeys |->
                    MathMax(0, MapGet(desiredCounts, key)
                               - MapGet(defaultCounts, key)) ]
    IN  SumOverKeys(allKeys, term, 0)

totalReused(defaultCounts, desiredCounts) ==
    LET allKeys == DOMAIN defaultCounts \cup DOMAIN desiredCounts
        term == [ key \in allKeys |->
                    MathMin(MapGet(defaultCounts, key),
                            MapGet(desiredCounts, key)) ]
    IN  SumOverKeys(allKeys, term, 0)

\* the Map's size taken for the number of polarized defaults
totalDefaults_size(defaultCounts) == Cardinality(DOMAIN defaultCounts)

totalDefaults(defaultCounts) ==
    SumOverKeys(DOMAIN defaultCounts, defaultCounts, 0)

\* the difference taken the wrong way round
unmatchedRegular_reversed(defaultCounts, desiredCounts) ==
    LET regular == { REGULAR_POLARITIES[i] : i \in 1..Len(REGULAR_POLARITIES) }
        term == [ pol \in regular |->
                    MathMax(0, MapGet(defaultCounts, pol)
                               - MapGet(desiredCounts, pol)) ]
    IN  SumOverKeys(regular, term, 0)

unmatchedRegular(defaultCounts, desiredCounts) ==
    LET regular == { REGULAR_POLARITIES[i] : i \in 1..Len(REGULAR_POLARITIES) }
        term == [ pol \in regular |->
                    MathMax(0, MapGet(desiredCounts, pol)
                               - MapGet(defaultCounts, pol)) ]
    IN  SumOverKeys(regular, term, 0)

\* the slot type not looked at
universalCapacity_anyType(layout) ==
    Cardinality({ i \in 1..Len(layout) : layout[i].polarity = AP_ANY })

\* the number of slots of the layout with AP_ANY on a capacity slot
universalCapacity(layout) ==
    Cardinality({ i \in 1..Len(layout) :
                    layout[i].polarity = AP_ANY
                    /\ isCapacitySlot(layout[i].type) })

calculateFormaCount(defaults, desired) ==
    LET defaultPolarities == [ i \in 1..Len(defaults) |-> defaults[i].polarity ]
        desiredPolarities == [ i \in 1..Len(desired) |-> desired[i].polarity ]
        defaultCounts == countMultiset(defaultPolarities)
        desiredCounts == countMultiset(desiredPolarities)
        unmatchedDefaults == totalDefaults(defaultCounts)
                             - totalReused(defaultCounts, desiredCounts)
        unmatchedReg == unmatchedRegular(defaultCounts, desiredCounts)
        unmatchedUmbra == MathMax(0, MapGet(desiredCounts, AP_UMBRA)
                                     - MapGet(defaultCounts, AP_UMBRA))
        totalNewUniversal == MathMax(0, MapGet(desiredCounts, AP_ANY)
                                        - MapGet(defaultCounts, AP_ANY))
        defaultUniversalCapacity == universalCapacity(defaults)
        desiredUniversalCapacity == universalCapacity(desired)
        newStance == MathMax(0, desiredUniversalCapacity
                                - defaultUniversalCapacity)
        newUniversal == MathMax(0, totalNewUniversal - newStance)
        excessClears == MathMax(0, unmatchedDefaults - unmatchedReg
                                   - totalNewUniversal - unmatchedUmbra)
        regular == unmatchedReg + excessClears
    IN  [regular |-> regular,
         universal |-> newUniversal,
         umbra |-> unmatchedUmbra,
         stance |-> newStance,
         total |-> regular + newUniversal + unmatchedUmbra + newStance]

-----------------------------------------------------------------------------
(* src/client/types/warframe.ts: damage types *)

DAMAGE_TYPES ==
    <<"Impact", "Puncture", "Slash", "Heat", "Cold", "Electricity", "Toxin",
      "Blast", "Radiation", "Gas", "Magnetic", "Viral", "Corrosive", "Void",
      "Tau", "Cinematic", "ShieldDrain", "HealthDrain", "EnergyDrain", "True">>

PRIMARY_ELEMENTS == <<"Heat", "Cold", "Electricity", "Toxin">>

\* Object.entries(ELEMENT_COMBINATIONS), in insertion order
ELEMENT_COMBINATIONS ==
    <<[result |-> "Blast", a |-> "Heat", b |-> "Cold"],
      [result |-> "Corrosive", a |-> "Electricity", b |-> "Toxin"],
      [result |-> "Gas", a |-> "Heat", b |-> "Toxin"],
      [result |-> "Magnetic", a |-> "Cold", b |-> "Electricity"],
      [result |-> "Radiation", a |-> "Electricity", b |-> "Heat"],
      [result |-> "Viral", a |-> "Cold", b |-> "Toxin"]>>

ELEMENT_PRIORITY == <<"Heat", "Cold", "Electricity", "Toxin">>

-----------------------------------------------------------------------------
(* src/client/utils/elements.ts.  Damage values are counted in hundredths:
   the value 1.25 is the integer 125. *)

\* Array.prototype.indexOf, 0-based, -1 when absent
IndexOf(arr, x) ==
    IF \E i \in 1..Len(arr) : arr[i] = x
    THEN (CHOOSE i \in 1..Len(arr) :
             arr[i] = x /\ \A j \in 1..(i - 1) : arr[j] # x) - 1
    ELSE -1

\* baseDamage[i] || 0 for a 0-based index i
BaseAt(baseDamage, i) == IF i + 1 <= Len(baseDamage) THEN baseDamage[i + 1] ELSE 0

\* Map.get(type) || 0 on a Map kept as the sequence of its entries
OutputGet(output, type) ==
    IF \E k \in 1..Len(output) : output[k].type = type
    THEN (output[CHOOSE k \in 1..Len(output) : output[k].type = type]).value
    ELSE 0

\* Map.set(type, value): an existing key keeps its place, a new one goes last
OutputSet(output, type, value) ==
    IF \E k \in 1..Len(output) : output[k].type = type
    THEN [ k \in 1..Len(output) |->
             IF output[k].type = type THEN [type |-> type, value |-> value]
             ELSE output[k] ]
    ELSE Append(output, [type |-> type, value |-> value])

\* Math.round(value * 10) / 10 on hundredths; halves round up
RoundTenth(value) == ((value + 5) \div 10) * 10

\* the loop seeding the output from the base damage, from 0-based index i on
RECURSIVE seedOutput(_, _, _)
seedOutput(baseDamage, i, output) ==
    IF i >= Len(DAMAGE_TYPES) THEN output
    ELSE LET val == BaseAt(baseDamage, i)
         IN  seedOutput(baseDamage, i + 1,
                 IF val > 0 THEN OutputSet(output, DAMAGE_TYPES[i + 1], val)
                 ELSE output)

\* the loop over Object.entries(damageMultipliers), from entry k on
RECURSIVE applyMultipliers(_, _, _)
applyMultipliers(multipliers, k, output) ==
    IF k > Len(multipliers) THEN output
    ELSE LET current == OutputGet(output, multipliers[k].type)
         IN  applyMultipliers(multipliers, k + 1,
                 IF current > 0
                 THEN OutputSet(output, multipliers[k].type,
                                current * (1 + multipliers[k].mult))
                 ELSE output)

\* the mods left in the order the caller listed them
sortBySlotIndex_asGiven(mods) == mods

\* Array.prototype.sort with (a, b) => a.slotIndex - b.slotIndex: stable
RECURSIVE sortBySlotIndex(_)
sortBySlotIndex(mods) ==
    IF Len(mods) <= 1 THEN mods
    ELSE LET n == Len(mods)
             head == sortBySlotIndex(SubSeq(mods, 1, n - 1))
             x == mods[n]
             before == SelectSeq(head, LAMBDA m : m.slotIndex <= x.slotIndex)
             after == SelectSeq(head, LAMBDA m : m.slotIndex > x.slotIndex)
         IN  before \o <<x>> \o after

\* Array.prototype.sort by ELEMENT_PRIORITY.indexOf(element): stable
RECURSIVE sortByPriority(_)
sortByPriority(entries) ==
    IF Len(entries) <= 1 THEN entries
    ELSE LET n == Len(entries)
             head == sortByPriority(SubSeq(entries, 1, n - 1))
             x == entries[n]
             rank(e) == IndexOf(ELEMENT_PRIORITY, e.element)
             before == SelectSeq(head, LAMBDA m : rank(m) <= rank(x))
             after == SelectSeq(head, LAMBDA m : rank(m) > rank(x))
         IN  before \o <<x>> \o after

\* the loop collecting the innate primary elements, from 0-based index i on
RECURSIVE collectInnate(_, _, _)
collectInnate(baseDamage, i, result) ==
    IF i >= Len(PRIMARY_ELEMENTS) THEN result
    ELSE LET value == BaseAt(baseDamage, 3 + i)
         IN  collectInnate(baseDamage, i + 1,
                 IF value > 0
                 THEN Append(result, [element |-> PRIMARY_ELEMENTS[i + 1],
                                      value |-> value])
                 ELSE result)

identifyInnateElements(baseDamage) ==
    sortByPriority(collectInnate(baseDamage, 0, <<>>))

\* the mod loop adding the innate value to every mod of the element
RECURSIVE addModElements_everyMatch(_, _, _, _)
addModElements_everyMatch(mods, innate, k, st) ==
    IF k > Len(mods) THEN st
    ELSE LET mod == mods[k]
             matches == { j \in 1..Len(innate) : innate[j].element = mod.element }
             found == matches # {}
             value == IF found
                      THEN mod.value + innate[CHOOSE j \in matches : TRUE].value
                      ELSE mod.value
         IN  addModElements_everyMatch(mods, innate, k + 1,
                 [sequence |-> Append(st.sequence,
                                  [element |-> mod.element, value |-> value,
                                   isInnate |-> FALSE]),
                  consumedInnate |->
                      IF found THEN st.consumedInnate \cup {mod.element}
                      ELSE st.consumedInnate])

\* the loop over the mods of buildElementSequence, from mod k on;
\* st = [sequence, consumedInnate]
RECURSIVE addModElements(_, _, _, _)
addModElements(mods, innate, k, st) ==
    IF k > Len(mods) THEN st
    ELSE LET mod == mods[k]
             matches == { j \in 1..Len(innate) :
                            innate[j].element = mod.element
                            /\ mod.element \notin st.consumedInnate }
             found == matches # {}
             innateMatch == innate[CHOOSE j \in matches :
                                      \A l \in matches : j <= l]
             value == IF found THEN mod.value + innateMatch.value
                      ELSE mod.value
         IN  addModElements(mods, innate, k + 1,
                 [sequence |-> Append(st.sequence,
                                  [element |-> mod.element, value |-> value,
                                   isInnate |-> FALSE]),
                  consumedInnate |->
                      IF found THEN st.consumedInnate \cup {mod.element}
                      ELSE st.consumedInnate])

\* the loop appending the innate elements no mod consumed, from entry k on
RECURSIVE appendInnate(_, _, _, _)
appendInnate(innate, consumedInnate, k, sequence) ==
    IF k > Len(innate) THEN sequence
    ELSE appendInnate(innate, consumedInnate, k + 1,
             IF innate[k].element \notin consumedInnate
             THEN Append(sequence, [element |-> innate[k].element,
                                    value |-> innate[k].value,
                                    isInnate |-> TRUE])
             ELSE sequence)

buildElementSequence(mods, innate) ==
    LET st == addModElements(mods, innate, 1,
                  [sequence |-> <<>>, consumedInnate |-> {}])
    IN  appendInnate(innate, st.consumedInnate, 1, st.sequence)

\* the value of findCombination when no pair matches
null == "null"

\* findCombination matching a pair in its listed order only
findCombination_ordered(a, b) ==
    LET hits == { k \in 1..Len(ELEMENT_COMBINATIONS) :
                    a = ELEMENT_COMBINATIONS[k].a
                    /\ b = ELEMENT_COMBINATIONS[k].b }
    IN  IF hits = {} THEN null
        ELSE ELEMENT_COMBINATIONS[CHOOSE k \in hits :
                                     \A l \in hits : k <= l].result

findCombination(a, b) ==
    LET hits == { k \in 1..Len(ELEMENT_COMBINATIONS) :
                    \/ a = ELEMENT_COMBINATIONS[k].a
                       /\ b = ELEMENT_COMBINATIONS[k].b
                    \/ a = ELEMENT_COMBINATIONS[k].b
                       /\ b = ELEMENT_COMBINATIONS[k].a }
    IN  IF hits = {} THEN null
        ELSE ELEMENT_COMBINATIONS[CHOOSE k \in hits :
                                     \A l \in hits : k <= l].result

\* the while loop stopping before an entry that has no successor
RECURSIVE combineLoop_dropLast(_, _, _)
combineLoop_dropLast(sequence, i, result) ==
    IF i + 1 >= Len(sequence) THEN result
    ELSE LET current == sequence[i + 1]
             combined == findCombination(current.element,
                                         sequence[i + 2].element)
         IN  IF combined # null
             THEN combineLoop_dropLast(sequence, i + 2,
                      Append(result,
                             [type |-> combined,
                              value |-> current.value + sequence[i + 2].value]))
             ELSE combineLoop_dropLast(sequence, i + 1,
                      Append(result, [type |-> current.element,
                                      value |-> current.value]))

\* the while loop looking one entry further when the successor does not pair
RECURSIVE combineLoop_skipOne(_, _, _)
combineLoop_skipOne(sequence, i, result) ==
    IF i >= Len(sequence) THEN result
    ELSE LET current == sequence[i + 1]
             direct == IF i + 1 < Len(sequence)
                       THEN findCombination(current.element, sequence[i + 2].element)
                       ELSE null
             over == IF direct = null /\ i + 2 < Len(sequence)
                     THEN findCombination(current.element, sequence[i + 3].element)
                     ELSE null
         IN  IF direct # null
             THEN combineLoop_skipOne(sequence, i + 2,
                      Append(result, [type |-> direct,
                                      value |-> current.value + sequence[i + 2].value]))
             ELSE IF over # null
             THEN combineLoop_skipOne(sequence, i + 3,
                      Append(Append(result, [type |-> over,
                                             value |-> current.value + sequence[i + 3].value]),
                             [type |-> sequence[i + 2].element,
                              value |-> sequence[i + 2].value]))
             ELSE combineLoop_skipOne(sequence, i + 1,
                      Append(result, [type |-> current.element,
                                      value |-> current.value]))

\* the while loop of combineElements, from 0-based index i on
RECURSIVE combineLoop(_, _, _)
combineLoop(sequence, i, result) ==
    IF i >= Len(sequence) THEN result
    ELSE LET current == sequence[i + 1]
             combined == IF i + 1 < Len(sequence)
                         THEN findCombination(current.element,
                                              sequence[i + 2].element)
                         ELSE null
         IN  IF combined # null
             THEN combineLoop(sequence, i + 2,
                      Append(result,
                             [type |-> combined,
                              value |-> current.value + sequence[i + 2].value]))
             ELSE combineLoop(sequence, i + 1,
                      Append(result, [type |-> current.element,
                                      value |-> current.value]))

combineElements(sequence) ==
    IF Len(sequence) = 0 THEN <<>> ELSE combineLoop(sequence, 0, <<>>)

\* the merge loop overwriting an entry the base damage already has
RECURSIVE mergeCombined_overwrite(_, _, _)
mergeCombined_overwrite(combinedElements, k, output) ==
    IF k > Len(combinedElements) THEN output
    ELSE mergeCombined_overwrite(combinedElements, k + 1,
             OutputSet(output, combinedElements[k].type,
                       combinedElements[k].value))

\* the loop merging the combined elements into the output, from entry k on
RECURSIVE mergeCombined(_, _, _)
mergeCombined(combinedElements, k, output) ==
    IF k > Len(combinedElements) THEN output
    ELSE LET combined == combinedElements[k]
             existing == OutputGet(output, combined.type)
         IN  mergeCombined(combinedElements, k + 1,
                 OutputSet(output, combined.type, existing + combined.value))

\* the loop building the result from the positive entries, from entry k on
RECURSIVE collectResult(_, _, _)
collectResult(output, k, result) ==
    IF k > Len(output) THEN result
    ELSE collectResult(output, k + 1,
             IF output[k].value > 0
             THEN Append(result, [type |-> output[k].type,
                                  value |-> RoundTenth(output[k].value)])
             ELSE result)

\* the output map once the combined elements are merged in, before the result
\* is built and rounded
outputMap(baseDamage, elementMods, damageMultipliers) ==
    LET seeded == seedOutput(baseDamage, 0, <<>>)
        multiplied == applyMultipliers(damageMultipliers, 1, seeded)
        innateElements == identifyInnateElements(baseDamage)
        sortedMods == sortBySlotIndex(elementMods)
        elementSequence == buildElementSequence(sortedMods, innateElements)
        combinedElements == combineElements(elementSequence)
    IN  mergeCombined(combinedElements, 1, multiplied)

calculateFinalDamage(baseDamage, elementMods, damageMultipliers) ==
    collectResult(outputMap(baseDamage, elementMods, damageMultipliers), 1, <<>>)

-----------------------------------------------------------------------------
(* Mod effect parser and stat aggregator (utils/modStatParser), after
   sections 4.1 and 4.2 of the specification.  A description is a text that
   decodes to the rank-indexed array of its blocks (isArray) or does not; a
   block is its lines; a line `<sign><number>% <tag><Label>` is the record
   of its parts.  Effects are counted in percent: the
   contribution sign * number / 100 is the integer sign * number. *)

\* the rule table: label after the markup tag is stripped, and its field
StatRules ==
    <<[label |-> "Damage", statKey |-> "baseDamage"],
      [label |-> "Multishot", statKey |-> "multishot"],
      [label |-> "Critical Chance", statKey |-> "critChance"],
      [label |-> "Fire Rate", statKey |-> "fireRate"],
      [label |-> "Attack Speed", statKey |-> "fireRate"],
      [label |-> "Heat", statKey |-> "heatDamage"],
      [label |-> "Health", statKey |-> "health"],
      [label |-> "Shield Capacity", statKey |-> "shield"],
      [label |-> "Armor", statKey |-> "armor"],
      [label |-> "Energy Max", statKey |-> "energy"],
      [label |-> "Sprint Speed", statKey |-> "sprintSpeed"],
      [label |-> "Ability Strength", statKey |-> "abilityStrength"],
      [label |-> "Ability Duration", statKey |-> "abilityDuration"],
      [label |-> "Ability Efficiency", statKey |-> "abilityEfficiency"],
      [label |-> "Ability Range", statKey |-> "abilityRange"]>>

StatKeys == { StatRules[k].statKey : k \in 1..Len(StatRules) }

\* the effect bag with every field 0
ZeroBag == [ key \in StatKeys |-> 0 ]

AddBags(a, b) == [ key \in StatKeys |-> a[key] + b[key] ]

\* the contribution of one line: nothing unless it has a sign and its label
\* matches a rule
parseLine(line, bag) ==
    LET hits == { k \in 1..Len(StatRules) : StatRules[k].label = line.label }
        rule == StatRules[CHOOSE k \in hits : \A l \in hits : k <= l]
        signed == IF line.sign = "-" THEN 0 - line.number ELSE line.number
    IN  IF line.sign \in {"+", "-"} /\ hits # {}
        THEN [bag EXCEPT ![rule.statKey] = @ + signed]
        ELSE bag

\* the lines of a block from line k on, accumulated into bag
RECURSIVE parseBlock(_, _, _)
parseBlock(block, k, bag) ==
    IF k > Len(block) THEN bag
    ELSE parseBlock(block, k + 1, parseLine(block[k], bag))

\* the effects of the block at a 0-based index; none when there is no block
blockEffects(blocks, index) ==
    IF index + 1 \in 1..Len(blocks)
    THEN parseBlock(blocks[index + 1], 1, ZeroBag)
    ELSE ZeroBag

\* parse without the clamp: a rank past the last block finds no text
parseModEffects_unclamped(mod, rank) ==
    IF ~mod.description.isArray THEN ZeroBag
    ELSE blockEffects(mod.description.blocks, rank)

\* parse reading the lines of a text that is no array all the same
parseModEffects_lenient(mod, rank) ==
    blockEffects(mod.description.blocks, MathMin(rank, mod.fusion_limit[1]))

parseModEffects(mod, rank) ==
    IF ~mod.description.isArray THEN ZeroBag
    ELSE blockEffects(mod.description.blocks, MathMin(rank, mod.fusion_limit[1]))

\* slot.rank ?? slot.mod.fusion_limit
slotRank(slot) == Nullish(slot.rank, slot.mod[1].fusion_limit)[1]

\* the fold adding the effects of the first occupied slot only
aggregateLoop_firstOnly(slots, k, total) ==
    LET occupied == { j \in k..Len(slots) : slots[j].mod # <<>> }
        first == CHOOSE j \in occupied : \A l \in occupied : j <= l
    IN  IF occupied = {} THEN total
        ELSE AddBags(total, parseModEffects(slots[first].mod[1], slotRank(slots[first])))

\* the fold over the slots, from slot k on
RECURSIVE aggregateLoop(_, _, _)
aggregateLoop(slots, k, total) ==
    IF k > Len(slots) THEN total
    ELSE aggregateLoop(slots, k + 1,
             IF slots[k].mod = <<>> THEN total
             ELSE AddBags(total, parseModEffects(slots[k].mod[1], slotRank(slots[k]))))

aggregateAllMods(slots) == aggregateLoop(slots, 1, ZeroBag)

-----------------------------------------------------------------------------
(* Riven verifier (utils/riven), after section 4.6 of the specification:
   each stat's magnitude is clamped to the valid roll range of its
   combination of positive count and negative presence, and the sign is set
   by the stat's place.  Values are counted in tenths of a percent.  The
   numeric table is external data; the caps and multipliers below stand for
   it. *)

RivenWeaponType == {"primary", "melee"}

RivenStatNames == {"Damage", "Multishot", "Critical Chance", "Reload Speed"}

\* base cap of a stat for an equipment category
RivenBaseCap ==
    [ weaponType \in RivenWeaponType |->
        IF weaponType = "primary"
        THEN [ stat \in RivenStatNames |->
                 CASE stat = "Damage" -> 1650
                   [] stat = "Multishot" -> 900
                   [] stat = "Critical Chance" -> 1500
                   [] OTHER -> 500 ]
        ELSE [ stat \in RivenStatNames |->
                 CASE stat = "Damage" -> 1000
                   [] stat = "Multishot" -> 0
                   [] stat = "Critical Chance" -> 1800
                   [] OTHER -> 550 ] ]

\* per-mille multiplier of a combination, at the top of the roll range
ComboMultiplier(positiveCount, hasNegative, isNegative) ==
    CASE isNegative -> IF positiveCount = 3 THEN 825 ELSE 594
      [] positiveCount = 3 -> IF hasNegative THEN 1031 ELSE 825
      [] positiveCount = 2 -> IF hasNegative THEN 1361 ELSE 1089
      [] OTHER -> IF hasNegative THEN 1650 ELSE 1100

\* the valid range of a stat's magnitude
rollRange(weaponType, stat, positiveCount, hasNegative, isNegative) ==
    LET scaled == RivenBaseCap[weaponType][stat]
                    * ComboMultiplier(positiveCount, hasNegative, isNegative)
    IN  [min |-> (scaled * 9) \div 10000, max |-> scaled \div 1000]

clampMagnitude(value, range) ==
    MathMin(MathMax(MathAbs(value), range.min), range.max)

\* the stat with its magnitude clamped, keeping the sign it was submitted with
adjustStat_keepSign(stat, range, isNegative) ==
    [stat EXCEPT !.value = IF stat.value < 0 THEN 0 - clampMagnitude(stat.value, range)
                           ELSE clampMagnitude(stat.value, range)]

\* the stat with its magnitude clamped and the sign of its place
adjustStat(stat, range, isNegative) ==
    [stat EXCEPT !.value = IF isNegative THEN 0 - clampMagnitude(stat.value, range)
                           ELSE clampMagnitude(stat.value, range)]

verifyAndAdjustRivenConfig(config, weaponType) ==
    LET positiveCount == Len(config.positive)
        hasNegative == config.negative # <<>>
        positive == [ i \in 1..positiveCount |->
                        adjustStat(config.positive[i],
                                   rollRange(weaponType, config.positive[i].stat,
                                             positiveCount, hasNegative, FALSE),
                                   FALSE) ]
        negative == IF hasNegative
                    THEN <<adjustStat(config.negative[1],
                                      rollRange(weaponType, config.negative[1].stat,
                                                positiveCount, hasNegative, TRUE),
                                      TRUE)>>
                    ELSE <<>>
        adjusted == \/ \E i \in 1..positiveCount :
                          positive[i].value # config.positive[i].value
                    \/ negative # config.negative
    IN  [adjusted |-> adjusted,
         config |-> [config EXCEPT !.positive = positive, !.negative = negative]]

\* validateRivenConfig, after section 4.6: the message of the first shape
\* failure, or NoError
NoError == ""

validateRivenConfig(config) ==
    LET positive == config.positive
        names == [ i \in 1..Len(positive) |-> positive[i].stat ]
    IN  IF Len(positive) < 1 THEN "At least one positive stat is required"
        ELSE IF Len(positive) > 3 THEN "At most three positive stats are allowed"
        ELSE IF \E i, j \in 1..Len(names) : i # j /\ names[i] = names[j]
             THEN "Each stat can only be used once"
        ELSE IF \E i \in 1..Len(positive) : positive[i].isNegative
             THEN "Positive stats cannot be negative"
        ELSE IF config.negative # <<>>
                /\ \E i \in 1..Len(names) : names[i] = config.negative[1].stat
             THEN "Each stat can only be used once"
        ELSE IF config.negative # <<>> /\ ~config.negative[1].isNegative
             THEN "The negative stat must be negative"
        ELSE NoError

-----------------------------------------------------------------------------
(* utils/warframeCalc (src/unnamed/part_000).  A warframe's stats are counted
   in hundredths (sprint speed 1.15 is 115), the aggregated effects in
   percent, and the numbers of a StatPair in ten-thousandths, so that
   base * (1 + mult) is the integer base * (100 + mult). *)

\* apply adding the fraction to the base instead of scaling by it
apply_additive(base, mult) == [base |-> base * 100, modded |-> base * 100 + mult * 100]

apply(base, mult) == [base |-> base * 100, modded |-> base * (100 + mult)]

applyPercent(basePct, addPct) ==
    [base |-> basePct * 10000, modded |-> basePct * 10000 + addPct * 10000]

calculateWarframeStats(warframe, slots) ==
    LET mods == aggregateAllMods(slots)
    IN  [health |-> apply(Nullish(warframe.health, <<0>>)[1], mods.health),
         shield |-> apply(Nullish(warframe.shield, <<0>>)[1], mods.shield),
         armor |-> apply(Nullish(warframe.armor, <<0>>)[1], mods.armor),
         energy |-> apply(Nullish(warframe.power, <<0>>)[1], mods.energy),
         sprintSpeed |-> apply(Nullish(warframe.sprint_speed, <<100>>)[1], mods.sprintSpeed),
         abilityStrength |-> applyPercent(100, mods.abilityStrength),
         abilityDuration |-> applyPercent(100, mods.abilityDuration),
         abilityEfficiency |-> applyPercent(100, mods.abilityEfficiency),
         abilityRange |-> applyPercent(100, mods.abilityRange)]

-----------------------------------------------------------------------------
(* One call of calculateEffectiveDrain *)

OptPolarity == PolarityKey \cup {undefined}

InitDrain ==
    /\ pc = "call"
    /\ \E b \in -MaxDrain..MaxDrain, f \in 0..MaxFusion,
          sp \in OptPolarity, mp \in OptPolarity, t \in SlotType :
          \E r \in -RankSlack..(f + RankSlack) :
             args = [baseDrain |-> b, modRank |-> r, fusionLimit |-> f,
                     slotPolarity |-> sp, modPolarity |-> mp, slotType |-> t]
    /\ ret = 0

CallEffectiveDrain ==
    /\ pc = "call"
    /\ ret' = calculateEffectiveDrain(args.baseDrain, args.modRank,
                                      args.fusionLimit, args.slotPolarity,
                                      args.modPolarity, args.slotType)
    /\ pc' = "done"
    /\ UNCHANGED args

NextDrain == CallEffectiveDrain

SpecDrain == InitDrain /\ [][NextDrain]_vars

-----------------------------------------------------------------------------
(* One call of calculateTotalCapacity *)

\* Mod records as the loop reads them: base_drain?, fusion_limit?, polarity?
ModChoices ==
    { [base_drain |-> <<-7>>, fusion_limit |-> <<5>>, polarity |-> AP_ATTACK],
      [base_drain |-> <<4>>, fusion_limit |-> <<5>>, polarity |-> AP_ATTACK],
      [base_drain |-> <<>>, fusion_limit |-> <<>>, polarity |-> undefined] }

\* ModSlot: type, polarity?, mod?, rank?
SlotChoices ==
    { [type |-> t, polarity |-> p, mod |-> m, rank |-> r] :
        t \in SlotType, p \in {undefined, AP_ATTACK},
        m \in {<<>>} \cup { <<x>> : x \in ModChoices },
        r \in {<<>>, <<2>>} }

\* a rank goes with a mod that has ranks
ModSlots ==
    { s \in SlotChoices :
        s.rank # <<>> => (s.mod # <<>> /\ s.mod[1].fusion_limit # <<>>) }

InitCapacity ==
    /\ pc = "call"
    /\ \E n \in 0..MaxSlots :
          \E l \in [1..n -> ModSlots], c \in {<<>>, <<0>>},
             o \in {<<>>, <<TRUE>>, <<FALSE>>} :
             args = [slots |-> l, baseCapacity |-> c, orokinReactor |-> o]
    /\ ret = 0

CallTotalCapacity ==
    /\ pc = "call"
    /\ ret' = calculateTotalCapacity(args.slots, args.baseCapacity,
                                     args.orokinReactor)
    /\ pc' = "done"
    /\ UNCHANGED args

NextCapacity == CallTotalCapacity

SpecCapacity == InitCapacity /\ [][NextCapacity]_vars

-----------------------------------------------------------------------------
(* One call of calculateFormaCount.  The two layouts are the default and the
   user-configured polarities of the slots of one item of equipment: slot i
   has the same type in both. *)

\* the polarities drawn for a layout: none, two regular ones, umbra, universal
LayoutPolarities == {undefined, AP_ATTACK, AP_DEFENSE, AP_UMBRA, AP_ANY}

\* slot types of the longer layouts: one that holds mods, two that add capacity
LayoutTypes == {"general", "aura", "posture"}

\* the two layouts of n slots of the given types and polarities
Layouts(n, types, def, des) ==
    [defaults |-> [ i \in 1..n |-> [polarity |-> def[i], type |-> types[i]] ],
     desired |-> [ i \in 1..n |-> [polarity |-> des[i], type |-> types[i]] ]]

InitForma ==
    /\ pc = "call"
    /\ \/ \E n \in 0..MaxLayout :
             \E types \in [1..n -> LayoutTypes],
                def \in [1..n -> LayoutPolarities],
                des \in [1..n -> LayoutPolarities] :
                args = Layouts(n, types, def, des)
       \/ \E n \in 1..MaxKeysLayout :
             \E types \in [1..n -> SlotType],
                def \in [1..n -> OptPolarity],
                des \in [1..n -> OptPolarity] :
                args = Layouts(n, types, def, des)
    /\ ret = 0

CallFormaCount ==
    /\ pc = "call"
    /\ ret' = calculateFormaCount(args.defaults, args.desired)
    /\ pc' = "done"
    /\ UNCHANGED args

NextForma == CallFormaCount

SpecForma == InitForma /\ [][NextForma]_vars

-----------------------------------------------------------------------------
(* One call of calculateFinalDamage.  The base damage is the 20 floats of a
   weapon (or a shorter array); the mods come in the order the caller lists
   them; the multipliers are the entries of the damageMultipliers object. *)

\* a weapon's damagePerShot from its physical part, the values of its innate
\* primary elements and the values of its secondary elements
BaseArray(physical, innate, secondary) ==
    [ i \in 1..Len(DAMAGE_TYPES) |->
        IF i <= 3 THEN physical[i]
        ELSE IF DAMAGE_TYPES[i] \in innate THEN 21
        ELSE IF DAMAGE_TYPES[i] \in secondary THEN 53
        ELSE 0 ]

PrimarySet == { PRIMARY_ELEMENTS[i] : i \in 1..Len(PRIMARY_ELEMENTS) }

SecondarySet == { ELEMENT_COMBINATIONS[k].result : k \in 1..Len(ELEMENT_COMBINATIONS) }

PhysicalChoices == { <<0, 0, 0>>, <<104, 0, 37>> }

InnateChoices == { s \in SUBSET PrimarySet : Cardinality(s) <= 2 }

SecondaryChoices == { s \in SUBSET SecondarySet : Cardinality(s) <= 1 }

MultiplierChoices ==
    { <<>>,
      <<[type |-> "Impact", mult |-> 1], [type |-> "Heat", mult |-> 1],
        [type |-> "Blast", mult |-> 2]>> }

ElementMods == [slotIndex : {0, 7}, element : PrimarySet, value : {12, 35}]

InitDamage ==
    /\ pc = "call"
    /\ \E n \in 0..MaxMods :
          \E elementMods \in [1..n -> ElementMods],
             damageMultipliers \in MultiplierChoices :
             \/ \E physical \in PhysicalChoices, innate \in InnateChoices :
                   args = [baseDamage |-> BaseArray(physical, innate, {}),
                           elementMods |-> elementMods,
                           damageMultipliers |-> damageMultipliers]
             \/ \E physical \in PhysicalChoices, secondary \in SecondaryChoices :
                   args = [baseDamage |-> BaseArray(physical, {}, secondary),
                           elementMods |-> elementMods,
                           damageMultipliers |-> damageMultipliers]
             \/ args = [baseDamage |-> <<104, 0, 37>>,
                        elementMods |-> elementMods,
                        damageMultipliers |-> damageMultipliers]
    /\ ret = 0

CallFinalDamage ==
    /\ pc = "call"
    /\ ret' = calculateFinalDamage(args.baseDamage, args.elementMods,
                                   args.damageMultipliers)
    /\ pc' = "done"
    /\ UNCHANGED args

NextDamage == CallFinalDamage

SpecDamage == InitDamage /\ [][NextDamage]_vars

-----------------------------------------------------------------------------
(* One call of combineElements on an element sequence *)

ElementEntries == [element : PrimarySet, value : {12, 35}, isInnate : BOOLEAN]

InitCombine ==
    /\ pc = "call"
    /\ \E n \in 0..MaxSequence :
          \E sequence \in [1..n -> ElementEntries] :
             args = [sequence |-> sequence]
    /\ ret = 0

CallCombineElements ==
    /\ pc = "call"
    /\ ret' = combineElements(args.sequence)
    /\ pc' = "done"
    /\ UNCHANGED args

NextCombine == CallCombineElements

SpecCombine == InitCombine /\ [][NextCombine]_vars

-----------------------------------------------------------------------------
(* The steps of calculateFinalDamage that build the element sequence: the
   innate elements, the mods sorted by slot, the sequence of both *)

SlottedMods == [slotIndex : {0, 3, 7}, element : PrimarySet, value : {12, 35}]

InitSequence ==
    /\ pc = "call"
    /\ \E n \in 0..MaxMods :
          \E elementMods \in [1..n -> SlottedMods], innate \in InnateChoices :
             args = [baseDamage |-> BaseArray(<<104, 0, 37>>, innate, {}),
                     elementMods |-> elementMods]
    /\ ret = 0

BuildSequence ==
    /\ pc = "call"
    /\ LET innateElements == identifyInnateElements(args.baseDamage)
           sortedMods == sortBySlotIndex(args.elementMods)
       IN  ret' = [innateElements |-> innateElements,
                   sortedMods |-> sortedMods,
                   elementSequence |-> buildElementSequence(sortedMods, innateElements)]
    /\ pc' = "done"
    /\ UNCHANGED args

NextSequence == BuildSequence

SpecSequence == InitSequence /\ [][NextSequence]_vars

-----------------------------------------------------------------------------
(* One call of parseModEffects *)

\* lines: a bonus, a drawback under the melee label, and one no rule matches
LineChoices ==
    { [sign |-> "+", number |-> 20, tag |-> "", label |-> "Damage"],
      [sign |-> "-", number |-> 30, tag |-> "", label |-> "Attack Speed"],
      [sign |-> "+", number |-> 5, tag |-> "", label |-> "Zoom"] }

Blocks == UNION { [1..n -> LineChoices] : n \in 0..MaxLines }

\* makeMod: one block per rank, fusion_limit the index of the last one
makeMod(descriptions, isArray) ==
    [description |-> [isArray |-> isArray, blocks |-> descriptions],
     fusion_limit |-> <<Len(descriptions) - 1>>]

InitParse ==
    /\ pc = "call"
    /\ \E n \in 1..MaxBlocks :
          \E descriptions \in [1..n -> Blocks], isArray \in BOOLEAN :
             \E rank \in 0..(n - 1 + RankSlack) :
                args = [mod |-> makeMod(descriptions, isArray), rank |-> rank]
    /\ ret = 0

CallParseModEffects ==
    /\ pc = "call"
    /\ ret' = parseModEffects(args.mod, args.rank)
    /\ pc' = "done"
    /\ UNCHANGED args

NextParse == CallParseModEffects

SpecParse == InitParse /\ [][NextParse]_vars

-----------------------------------------------------------------------------
(* One call of aggregateAllMods *)

EquippedMods ==
    { makeMod(<<<<[sign |-> "+", number |-> 50, tag |-> "", label |-> "Damage"]>>,
                <<[sign |-> "+", number |-> 100, tag |-> "", label |-> "Damage"]>>,
                <<[sign |-> "+", number |-> 165, tag |-> "", label |-> "Damage"]>>>>,
              TRUE),
      makeMod(<<<<[sign |-> "+", number |-> 60, tag |-> "", label |-> "Multishot"],
                  [sign |-> "-", number |-> 15, tag |-> "", label |-> "Damage"]>>>>,
              TRUE),
      makeMod(<<<<[sign |-> "+", number |-> 100, tag |-> "", label |-> "Health"]>>>>,
              FALSE) }

\* ModSlot: mod?, rank?
EquippedSlots ==
    { [mod |-> <<>>, rank |-> <<>>] }
    \cup { [mod |-> <<m>>, rank |-> r] :
             m \in EquippedMods, r \in {<<>>, <<0>>, <<1>>, <<5>>} }

InitAggregate ==
    /\ pc = "call"
    /\ \E n \in 0..MaxEquipped :
          \E slots \in [1..n -> EquippedSlots] : args = [slots |-> slots]
    /\ ret = 0

CallAggregateAllMods ==
    /\ pc = "call"
    /\ ret' = aggregateAllMods(args.slots)
    /\ pc' = "done"
    /\ UNCHANGED args

NextAggregate == CallAggregateAllMods

SpecAggregate == InitAggregate /\ [][NextAggregate]_vars

-----------------------------------------------------------------------------
(* One call of verifyAndAdjustRivenConfig, on a configuration that passed
   validateRivenConfig: one to three distinct positive stats, at most one
   negative stat, distinct from them.  The submitted values have any sign. *)

SubmittedValues == {-700, 10, 1200, 9990}

RivenStats(isNegative) == [stat : RivenStatNames, value : SubmittedValues, isNegative : {isNegative}]

Distinct(stats) == \A i, j \in 1..Len(stats) : stats[i].stat = stats[j].stat => i = j

InitRiven ==
    /\ pc = "call"
    /\ \E n \in 1..3 :
          \E positive \in [1..n -> RivenStats(FALSE)],
             negative \in {<<>>} \cup { <<x>> : x \in RivenStats(TRUE) },
             weaponType \in RivenWeaponType :
             /\ Distinct(positive \o negative)
             /\ args = [config |-> [polarity |-> AP_ATTACK, positive |-> positive,
                                    negative |-> negative],
                        weaponType |-> weaponType]
    /\ ret = 0

CallVerifyAndAdjust ==
    /\ pc = "call"
    /\ ret' = verifyAndAdjustRivenConfig(args.config, args.weaponType)
    /\ pc' = "done"
    /\ UNCHANGED args

NextRiven == CallVerifyAndAdjust

SpecRiven == InitRiven /\ [][NextRiven]_vars

-----------------------------------------------------------------------------
(* The RivenBuilder component (components/ModBuilder/RivenBuilder).  Here
   args is the component: its props (weaponType) and its state (rows,
   polarity, error, adjustNotice); ret is what it has passed out: the number
   of calls of verifyAndAdjustRivenConfig and of onSave and the argument of
   the last one of each; pc is the handler that ran last.  The component is
   followed up to its MaxSaves-th call of onSave. *)

\* the choices of the editor: '' is the empty option of the stat select
RowStats == {"", "Damage", "Multishot"}

RowValues == {-50}

\* configToSave passing the values of the rows on as they are
configToSave_rawSign(rows, polarity) ==
    LET filled == SelectSeq(SubSeq(rows, 1, 3), LAMBDA r : r.stat # "")
    IN  [polarity |-> polarity,
         positive |-> [ i \in 1..Len(filled) |-> [filled[i] EXCEPT !.isNegative = FALSE] ],
         negative |-> IF rows[4].stat # ""
                      THEN <<[rows[4] EXCEPT !.isNegative = TRUE]>>
                      ELSE <<>>]

\* configToSave of handleSave
configToSave(rows, polarity) ==
    LET filled == SelectSeq(SubSeq(rows, 1, 3), LAMBDA r : r.stat # "")
    IN  [polarity |-> polarity,
         positive |-> [ i \in 1..Len(filled) |->
                          [filled[i] EXCEPT !.value = MathAbs(@), !.isNegative = FALSE] ],
         negative |-> IF rows[4].stat # ""
                      THEN <<[rows[4] EXCEPT !.value = 0 - MathAbs(@), !.isNegative = TRUE]>>
                      ELSE <<>>]

\* positive[i]?.stat ?? '' and positive[i]?.value ?? 0
rowOf(stats, i, isNegative) ==
    IF i <= Len(stats)
    THEN [stat |-> stats[i].stat, value |-> stats[i].value, isNegative |-> isNegative]
    ELSE [stat |-> "", value |-> 0, isNegative |-> isNegative]

InitRivenBuilder ==
    /\ pc = "mounted"
    /\ \E weaponType \in RivenWeaponType :
          args = [weaponType |-> weaponType,
                  rows |-> <<rowOf(<<>>, 1, FALSE), rowOf(<<>>, 1, FALSE),
                             rowOf(<<>>, 1, FALSE), rowOf(<<>>, 1, TRUE)>>,
                  polarity |-> AP_ATTACK,
                  error |-> "",
                  adjustNotice |-> ""]
    /\ ret = [verifyCalls |-> 0, verifyArg |-> <<>>, onSaveCalls |-> 0, onSaveArg |-> <<>>]

\* updateRow(idx, 'stat', value)
UpdateRowStat ==
    /\ ret.onSaveCalls < MaxSaves
    /\ \E idx \in 1..4, value \in RowStats :
          args' = [args EXCEPT !.rows[idx].stat = value]
    /\ pc' = "updateRow"
    /\ UNCHANGED ret

\* updateRow(idx, 'value', value)
UpdateRowValue ==
    /\ ret.onSaveCalls < MaxSaves
    /\ \E idx \in 1..4, value \in RowValues :
          args' = [args EXCEPT !.rows[idx].value = value]
    /\ pc' = "updateRow"
    /\ UNCHANGED ret

\* handleSave, up to the return after setError(validationError)
HandleSaveRejected ==
    LET validationError == validateRivenConfig(configToSave(args.rows, args.polarity))
    IN  /\ validationError # NoError
        /\ args' = [args EXCEPT !.error = validationError]
        /\ pc' = "handleSave"
        /\ UNCHANGED ret

\* handleSave, past the validation
HandleSaveVerified ==
    LET config == configToSave(args.rows, args.polarity)
        verified == verifyAndAdjustRivenConfig(config, args.weaponType)
    IN  /\ validateRivenConfig(config) = NoError
        /\ ret.onSaveCalls < MaxSaves
        /\ args' = [args EXCEPT
                      !.rows = <<rowOf(verified.config.positive, 1, FALSE),
                                 rowOf(verified.config.positive, 2, FALSE),
                                 rowOf(verified.config.positive, 3, FALSE),
                                 rowOf(verified.config.negative, 1, TRUE)>>,
                      !.error = "",
                      !.adjustNotice =
                          IF verified.adjusted
                          THEN "Some values were adjusted to valid roll ranges."
                          ELSE ""]
        /\ ret' = [verifyCalls |-> ret.verifyCalls + 1, verifyArg |-> <<config>>,
                   onSaveCalls |-> ret.onSaveCalls + 1,
                   onSaveArg |-> <<verified.config>>]
        /\ pc' = "handleSave"

NextRivenBuilder ==
    \/ UpdateRowStat
    \/ UpdateRowValue
    \/ HandleSaveRejected
    \/ HandleSaveVerified

SpecRivenBuilder == InitRivenBuilder /\ [][NextRivenBuilder]_vars

-----------------------------------------------------------------------------
(* One call of calculateWarframeStats *)

\* makeWarframe with any of its stats missing
Warframes ==
    [health : {<<>>, <<30000>>}, shield : {<<>>, <<30000>>}, armor : {<<>>, <<20000>>},
     power : {<<>>, <<15000>>}, sprint_speed : {<<>>, <<115>>}]

WarframeMods ==
    { makeMod(<<<<[sign |-> "+", number |-> 100, tag |-> "", label |-> "Health"]>>>>, TRUE),
      makeMod(<<<<[sign |-> "+", number |-> 30, tag |-> "", label |-> "Sprint Speed"],
                  [sign |-> "+", number |-> 50, tag |-> "", label |-> "Energy Max"]>>>>, TRUE),
      makeMod(<<<<[sign |-> "+", number |-> 99, tag |-> "", label |-> "Ability Strength"],
                  [sign |-> "-", number |-> 55, tag |-> "", label |-> "Ability Efficiency"]>>>>,
              TRUE),
      makeMod(<<<<[sign |-> "+", number |-> 100, tag |-> "", label |-> "Shield Capacity"],
                  [sign |-> "-", number |-> 20, tag |-> "", label |-> "Armor"],
                  [sign |-> "+", number |-> 45, tag |-> "", label |-> "Ability Range"],
                  [sign |-> "+", number |-> 30, tag |-> "", label |-> "Ability Duration"]>>>>,
              TRUE) }

WarframeSlots ==
    { [mod |-> <<>>, rank |-> <<>>] } \cup { [mod |-> <<m>>, rank |-> <<0>>] : m \in WarframeMods }

InitWarframe ==
    /\ pc = "call"
    /\ \E warframe \in Warframes, n \in 0..MaxEquipped :
          \E slots \in [1..n -> WarframeSlots] :
             args = [warframe |-> warframe, slots |-> slots]
    /\ ret = 0

CallWarframeStats ==
    /\ pc = "call"
    /\ ret' = calculateWarframeStats(args.warframe, args.slots)
    /\ pc' = "done"
    /\ UNCHANGED args

NextWarframe == CallWarframeStats

SpecWarframe == InitWarframe /\ [][NextWarframe]_vars

-----------------------------------------------------------------------------
(* context/CompareContext: the compare reducer and the actions the provider
   dispatches to it.  ret is the state useReducer holds, args the state and
   the action of the last reducer call, pc the type of that action. *)

MAX_SNAPSHOTS == 3

\* the new snapshot dropped when the list is full
compareReducer_dropNew(state, action) ==
    IF action.type = "ADD_SNAPSHOT"
    THEN LET next == Append(state.snapshots, action.snapshot)
         IN  [snapshots |-> IF Len(next) > MAX_SNAPSHOTS
                            THEN SubSeq(next, 1, Len(next) - 1) ELSE next]
    ELSE IF action.type = "REMOVE_SNAPSHOT"
    THEN [snapshots |-> SelectSeq(state.snapshots, LAMBDA s : s.id # action.id)]
    ELSE IF action.type = "CLEAR_ALL"
    THEN [snapshots |-> <<>>]
    ELSE state

compareReducer(state, action) ==
    IF action.type = "ADD_SNAPSHOT"
    THEN LET next == Append(state.snapshots, action.snapshot)
         IN  [snapshots |-> IF Len(next) > MAX_SNAPSHOTS THEN Tail(next) ELSE next]
    ELSE IF action.type = "REMOVE_SNAPSHOT"
    THEN [snapshots |-> SelectSeq(state.snapshots, LAMBDA s : s.id # action.id)]
    ELSE IF action.type = "CLEAR_ALL"
    THEN [snapshots |-> <<>>]
    ELSE state

\* snapshots: two may share an id
CompareSnapshots == [id : {"a", "b"}, timestamp : {1, 2}]

SnapshotIds == {"a", "b", "c"}

InitCompare ==
    /\ pc = "mounted"
    /\ args = <<>>
    /\ ret = [snapshots |-> <<>>]

dispatch(action) ==
    /\ args' = [state |-> ret, action |-> action]
    /\ ret' = compareReducer(ret, action)
    /\ pc' = action.type

addSnapshot ==
    \E snapshot \in CompareSnapshots :
        dispatch([type |-> "ADD_SNAPSHOT", snapshot |-> snapshot])

removeSnapshot ==
    \E id \in SnapshotIds : dispatch([type |-> "REMOVE_SNAPSHOT", id |-> id])

clearAll == dispatch([type |-> "CLEAR_ALL"])

NextCompare == addSnapshot \/ removeSnapshot \/ clearAll

SpecCompare == InitCompare /\ [][NextCompare]_vars

-----------------------------------------------------------------------------
(* The import router: the four POST routes that start a long-running job.
   args is the module state of the router (the three running flags and the
   phases of the two progress objects), ret says for each route whether a
   handler of it is suspended in its job, pc is the last thing a handler did.
   A handler runs from one await to the next without interruption. *)

InitImport ==
    /\ pc = "mounted"
    /\ args = [importRunning |-> FALSE, scrapeRunning |-> FALSE,
               wikiRunning |-> FALSE, scrapePhase |-> "done",
               wikiPhase |-> "done"]
    /\ ret = [run |-> FALSE, images |-> FALSE, scrape |-> FALSE, wiki |-> FALSE]

\* POST /run up to the await of runImportPipeline
PostRun ==
    \/ /\ args.importRunning
       /\ pc' = "POST /run 409"
       /\ UNCHANGED <<args, ret>>
    \/ /\ ~args.importRunning
       /\ args' = [args EXCEPT !.importRunning = TRUE]
       /\ ret' = [ret EXCEPT !.run = TRUE]
       /\ pc' = "POST /run awaits runImportPipeline"

\* runImportPipeline resolves or rejects
RunSettled ==
    /\ ret.run
    /\ args' = [args EXCEPT !.importRunning = FALSE]
    /\ ret' = [ret EXCEPT !.run = FALSE]
    /\ \/ pc' = "POST /run 200"
       \/ pc' = "POST /run 500"

\* POST /images up to the await of downloadImages
PostImages ==
    \/ /\ args.importRunning
       /\ pc' = "POST /images 409"
       /\ UNCHANGED <<args, ret>>
    \/ /\ ~args.importRunning
       /\ args' = [args EXCEPT !.importRunning = TRUE]
       /\ ret' = [ret EXCEPT !.images = TRUE]
       /\ pc' = "POST /images awaits downloadImages"

\* downloadImages resolves or rejects
ImagesSettled ==
    /\ ret.images
    /\ args' = [args EXCEPT !.importRunning = FALSE]
    /\ ret' = [ret EXCEPT !.images = FALSE]
    /\ \/ pc' = "POST /images 200"
       \/ pc' = "POST /images 500"

\* POST /scrape up to the await of scrapeIndex
PostScrape ==
    \/ /\ args.scrapeRunning \/ args.importRunning
       /\ pc' = "POST /scrape 409"
       /\ UNCHANGED <<args, ret>>
    \/ /\ ~(args.scrapeRunning \/ args.importRunning)
       /\ args' = [args EXCEPT !.scrapeRunning = TRUE, !.scrapePhase = "index"]
       /\ ret' = [ret EXCEPT !.scrape = TRUE]
       /\ pc' = "POST /scrape started, awaits scrapeIndex"

\* scrapeIndex resolves: on to the await of scrapeItems
ScrapeIndexResolved ==
    /\ ret.scrape /\ args.scrapePhase = "index"
    /\ args' = [args EXCEPT !.scrapePhase = "items"]
    /\ pc' = "POST /scrape awaits scrapeItems"
    /\ UNCHANGED ret

\* scrapeItems resolves and the merge runs, or an await rejects or the merge
\* throws: the phase is 'done' either way and the finally block runs
ScrapeSettled ==
    /\ ret.scrape
    /\ \/ args.scrapePhase = "items" /\ pc' = "POST /scrape merged"
       \/ pc' = "POST /scrape failed"
    /\ args' = [args EXCEPT !.scrapeRunning = FALSE, !.scrapePhase = "done"]
    /\ ret' = [ret EXCEPT !.scrape = FALSE]

\* POST /wiki-scrape up to the await of runWikiScrape
PostWikiScrape ==
    \/ /\ args.wikiRunning \/ args.scrapeRunning \/ args.importRunning
       /\ pc' = "POST /wiki-scrape 409"
       /\ UNCHANGED <<args, ret>>
    \/ /\ ~(args.wikiRunning \/ args.scrapeRunning \/ args.importRunning)
       /\ args' = [args EXCEPT !.wikiRunning = TRUE, !.wikiPhase = "augments"]
       /\ ret' = [ret EXCEPT !.wiki = TRUE]
       /\ pc' = "POST /wiki-scrape started, awaits runWikiScrape"

\* runWikiScrape resolves or rejects
WikiSettled ==
    /\ ret.wiki
    /\ args' = [args EXCEPT !.wikiRunning = FALSE, !.wikiPhase = "done"]
    /\ ret' = [ret EXCEPT !.wiki = FALSE]
    /\ \/ pc' = "POST /wiki-scrape merged"
       \/ pc' = "POST /wiki-scrape failed"

NextImport ==
    \/ PostRun \/ RunSettled \/ PostImages \/ ImagesSettled
    \/ PostScrape \/ ScrapeIndexResolved \/ ScrapeSettled
    \/ PostWikiScrape \/ WikiSettled

SpecImport == InitImport /\ [][NextImport]_vars

-----------------------------------------------------------------------------
(* Login lockout: attemptLogin calls from one IP address.  args is the lockout
   record of the address in the lockout data (<<>> when it has none) and the
   clock, in seconds; pc says for each call slot whether a call is suspended
   in verifyPassword; ret is what the last call of the slot returned.  A call
   runs without interruption up to its await and from there to its return. *)

\* configuration values imported from config
AUTH_MAX_ATTEMPTS == 2

AUTH_LOCKOUT_MINUTES == 1

AUTH_ATTEMPT_WINDOW_SECONDS == 60

Calls == 1..MaxCalls

\* !record?.locked_until is false and Date.now() / 1000 < record.locked_until
lockedNow(data, now) ==
    data # <<>> /\ data[1].locked_until # 0 /\ now < data[1].locked_until

\* the lockout data after isLockedOut: an expired lockout record is deleted
isLockedOutData(data, now) ==
    IF data # <<>> /\ data[1].locked_until # 0 /\ ~(now < data[1].locked_until)
    THEN <<>> ELSE data

\* the lockout data after recordFailedAttempt; a field that is not set is 0
recordFailedAttempt(data, nowSec) ==
    LET created == IF data = <<>>
                   THEN [attempts |-> 0, first_attempt |-> nowSec,
                         last_attempt |-> 0, locked_until |-> 0]
                   ELSE data[1]
        windowed == IF nowSec - created.first_attempt > AUTH_ATTEMPT_WINDOW_SECONDS
                    THEN [created EXCEPT !.attempts = 0, !.first_attempt = nowSec]
                    ELSE created
        attempts == windowed.attempts + 1
    IN  <<[attempts |-> attempts,
           first_attempt |-> windowed.first_attempt,
           last_attempt |-> nowSec,
           locked_until |-> IF attempts >= AUTH_MAX_ATTEMPTS
                            THEN nowSec + AUTH_LOCKOUT_MINUTES * 60
                            ELSE windowed.locked_until]>>

\* the lockout data after clearFailedAttempts
clearFailedAttempts(data) == <<>>

InitLogin ==
    /\ pc = [c \in Calls |-> "idle"]
    /\ args = [data |-> <<>>, now |-> 0]
    /\ ret = [c \in Calls |-> "none"]

\* attemptLogin from its start to the first await, or to the lockout return
AttemptLogin(c) ==
    /\ pc[c] = "idle"
    /\ \/ /\ lockedNow(args.data, args.now)
          /\ ret' = [ret EXCEPT ![c] = "Too many failed attempts. Try again later."]
          /\ UNCHANGED <<pc, args>>
       \/ /\ ~lockedNow(args.data, args.now)
          /\ args' = [args EXCEPT !.data = isLockedOutData(args.data, args.now)]
          /\ pc' = [pc EXCEPT ![c] = "verifyPassword"]
          /\ ret' = [ret EXCEPT ![c] = "none"]

\* verifyPassword resolves: the user is unknown or the password wrong
VerifyFailed(c) ==
    /\ pc[c] = "verifyPassword"
    /\ LET data == recordFailedAttempt(args.data, args.now)
           remaining == AUTH_MAX_ATTEMPTS - data[1].attempts
       IN  /\ args' = [args EXCEPT !.data = data]
           /\ ret' = [ret EXCEPT ![c] =
                        IF remaining <= 0
                        THEN "Too many failed attempts. Locked out."
                        ELSE "Invalid username or password."]
    /\ pc' = [pc EXCEPT ![c] = "idle"]

\* verifyPassword resolves: the password is the user's
VerifyOk(c) ==
    /\ pc[c] = "verifyPassword"
    /\ args' = [args EXCEPT !.data = clearFailedAttempts(args.data)]
    /\ ret' = [ret EXCEPT ![c] = "success"]
    /\ pc' = [pc EXCEPT ![c] = "idle"]

\* time passes
Tick ==
    /\ args.now < MaxTicks * 30
    /\ args' = [args EXCEPT !.now = args.now + 30]
    /\ UNCHANGED <<pc, ret>>

NextLogin ==
    \/ \E c \in Calls : AttemptLogin(c) \/ VerifyFailed(c) \/ VerifyOk(c)
    \/ Tick

SpecLogin == InitLogin /\ [][NextLogin]_vars

-----------------------------------------------------------------------------
(* Properties of calculateEffectiveDrain, read off the finished call *)

CapacityTypes == {"aura", "stance", "posture"}

ConsumingTypes == {"general", "exilus"}

\* m = |baseDrain| + min(modRank, fusionLimit)
Magnitude ==
    (IF args.baseDrain < 0 THEN -args.baseDrain ELSE args.baseDrain)
    + (IF args.modRank < args.fusionLimit THEN args.modRank
       ELSE args.fusionLimit)

BothPresent ==
    args.slotPolarity \in PolarityKey /\ args.modPolarity \in PolarityKey

\* equal, or at least one universal and neither umbra
MatchPair ==
    /\ BothPresent
    /\ \/ args.slotPolarity = args.modPolarity
       \/ /\ AP_ANY \in {args.slotPolarity, args.modPolarity}
          /\ AP_UMBRA \notin {args.slotPolarity, args.modPolarity}

\* universal against umbra, in either order
NeutralPair == {args.slotPolarity, args.modPolarity} = {AP_ANY, AP_UMBRA}

MismatchPair ==
    /\ BothPresent
    /\ args.slotPolarity # args.modPolarity
    /\ AP_ANY \notin {args.slotPolarity, args.modPolarity}

DrainDone == pc = "done" /\ "slotPolarity" \in DOMAIN args

\* C1: on a polarity match with magnitude m >= 0, a capacity slot returns
\* -(2*m) and a consuming slot returns ceil(m/2), the least k with 2*k >= m.
C1_MatchDoublesOrHalvesUp ==
    (DrainDone /\ MatchPair /\ Magnitude >= 0) =>
        /\ args.slotType \in CapacityTypes => ret = -(2 * Magnitude)
        /\ args.slotType \in ConsumingTypes =>
              2 * ret >= Magnitude /\ 2 * (ret - 1) < Magnitude

C1_Witness ==
    /\ DrainDone /\ MatchPair
    /\ args.slotPolarity = AP_ANY /\ args.modPolarity = AP_ATTACK
    /\ args.slotType = "general" /\ Magnitude = 9 /\ ret = 5

\* C2: on a mismatch in a consuming slot with magnitude m >= 0 the result is
\* m plus m/4 rounded to the nearest integer, halves up: +0 for m in 0..1,
\* +1 for 2..5, +2 for 6..9, +3 for 10..13, +4 for 14..16.
C2_MismatchConsumingAddsQuarter ==
    (DrainDone /\ MismatchPair /\ args.slotType \in ConsumingTypes
       /\ Magnitude >= 0) =>
        LET inc == ret - Magnitude
        IN  /\ 4 * inc - 2 <= Magnitude /\ Magnitude < 4 * inc + 2
            /\ Magnitude \in 0..1 => inc = 0
            /\ Magnitude \in 2..5 => inc = 1
            /\ Magnitude \in 6..9 => inc = 2
            /\ Magnitude \in 10..13 => inc = 3
            /\ Magnitude \in 14..16 => inc = 4

C2_Witness ==
    /\ DrainDone /\ MismatchPair /\ args.slotType = "exilus"
    /\ Magnitude = 14 /\ ret = 18

\* C3 as stated: on a mismatch in a capacity slot with magnitude m >= 0 the
\* result is -round(0.75*m), halves rounding up, i.e. -floor((3*m + 2) / 4).
C3_Original_RoundsThreeQuartersHalfUp ==
    (DrainDone /\ MismatchPair /\ args.slotType \in CapacityTypes
       /\ Magnitude >= 0) =>
        ret = -((3 * Magnitude + 2) \div 4)

\* C3 amended: on a mismatch in a capacity slot with magnitude m >= 0 the
\* result is -(m - r), r being m/4 rounded to the nearest integer with halves
\* up; the bonus -ret is therefore 0.75*m rounded to the nearest integer with
\* halves rounding down (m = 2 gives -1, m = 6 gives -4).
C3_MismatchCapacityRoundsReduction ==
    (DrainDone /\ MismatchPair /\ args.slotType \in CapacityTypes
       /\ Magnitude >= 0) =>
        LET r == Magnitude + ret
        IN  /\ 4 * r - 2 <= Magnitude /\ Magnitude < 4 * r + 2
            /\ 3 * Magnitude - 2 <= 4 * (-ret)
            /\ 4 * (-ret) < 3 * Magnitude + 2

C3_Witness ==
    /\ DrainDone /\ MismatchPair /\ args.slotType = "aura"
    /\ Magnitude = 6 /\ ret = -4

\* C4: with a polarity absent, or universal against umbra in either order,
\* the magnitude is unchanged: m in a consuming slot, -m in a capacity slot,
\* the value the same call gives with no polarity at all.
C4_NoneOrNeutralUnchanged ==
    (DrainDone /\ (~BothPresent \/ NeutralPair)) =>
        /\ args.slotType \in ConsumingTypes => ret = Magnitude
        /\ args.slotType \in CapacityTypes => ret = -Magnitude
        /\ ret = calculateEffectiveDrain(args.baseDrain, args.modRank,
                                         args.fusionLimit, undefined,
                                         undefined, args.slotType)

C4_Witness ==
    /\ DrainDone /\ NeutralPair /\ args.slotPolarity = AP_UMBRA
    /\ args.slotType = "stance" /\ Magnitude = 7 /\ ret = -7

\* C5: swapping the slot polarity and the mod polarity does not change the
\* result, for every pair of present polarities.
C5_PolaritySymmetric ==
    (DrainDone /\ BothPresent) =>
        ret = calculateEffectiveDrain(args.baseDrain, args.modRank,
                                      args.fusionLimit, args.modPolarity,
                                      args.slotPolarity, args.slotType)

C5_Witness ==
    /\ DrainDone /\ args.slotPolarity = AP_DEFENSE /\ args.modPolarity = AP_ANY
    /\ args.slotType = "general" /\ Magnitude = 9 /\ ret = 5

\* C7 as stated: the result is the one for the rank clamped into
\* [0, fusionLimit], and the magnitude behind it lies between |baseDrain| and
\* |baseDrain| + fusionLimit.
C7_RankClampedBothEnds ==
    DrainDone =>
        LET r == IF args.modRank < 0 THEN 0
                 ELSE IF args.modRank > args.fusionLimit THEN args.fusionLimit
                 ELSE args.modRank
            b == IF args.baseDrain < 0 THEN -args.baseDrain ELSE args.baseDrain
        IN  /\ ret = calculateEffectiveDrain(args.baseDrain, r,
                                             args.fusionLimit,
                                             args.slotPolarity,
                                             args.modPolarity, args.slotType)
            /\ Falsy(args.slotPolarity) =>
                  (IF ret < 0 THEN -ret ELSE ret) \in b..(b + args.fusionLimit)

-----------------------------------------------------------------------------
(* Properties of calculateTotalCapacity, read off the finished call *)

CapacityDone == pc = "done" /\ "slots" \in DOMAIN args

Occupied == { i \in 1..Len(args.slots) : args.slots[i].mod # <<>> }

\* the effective drain of occupied slot i, an absent rank standing for the
\* mod's fusion_limit and absent numbers for 0
DrainOf(i) ==
    LET slot == args.slots[i]
        mod == slot.mod[1]
        limit == IF mod.fusion_limit = <<>> THEN 0 ELSE mod.fusion_limit[1]
        base == IF mod.base_drain = <<>> THEN 0 ELSE mod.base_drain[1]
        rank == IF slot.rank = <<>> THEN limit ELSE slot.rank[1]
    IN  calculateEffectiveDrain(base, rank, limit, slot.polarity,
                                mod.polarity, slot.type)

RECURSIVE SumDrains(_)
SumDrains(S) ==
    IF S = {} THEN 0
    ELSE LET i == CHOOSE x \in S : TRUE
         IN  DrainOf(i) + SumDrains(S \ {i})

\* C6: baseCapacity is doubled by the reactor flag and unchanged otherwise
\* (30 when not given); empty slots are skipped; capacityBonus is the sum of
\* |d| over the occupied slots with effective drain d < 0 and totalDrain the
\* sum of d over those with d >= 0; remaining is baseCapacity +
\* capacityBonus - totalDrain, not clamped at 0.
C6_TotalCapacity ==
    CapacityDone =>
        LET base == IF args.baseCapacity = <<>> THEN 30
                    ELSE args.baseCapacity[1]
        IN  /\ ret.baseCapacity =
                  IF args.orokinReactor = <<TRUE>> THEN 2 * base ELSE base
            /\ ret.capacityBonus =
                  -SumDrains({ i \in Occupied : DrainOf(i) < 0 })
            /\ ret.totalDrain =
                  SumDrains({ i \in Occupied : DrainOf(i) >= 0 })
            /\ ret.remaining =
                  ret.baseCapacity + ret.capacityBonus - ret.totalDrain

C6_Witness ==
    /\ CapacityDone /\ Len(args.slots) = 2
    /\ args.slots[1].mod = <<>>
    /\ args.slots[2].mod # <<>> /\ args.slots[2].rank = <<>>
    /\ args.slots[2].type = "general"
    /\ ret.totalDrain = 9 /\ ret.remaining = -9

-----------------------------------------------------------------------------
(* Properties of calculateFormaCount, read off the finished call *)

FormaDone == pc = "done" /\ "defaults" \in DOMAIN args

\* how many slots of the layout carry polarity k
Occurrences(layout, k) ==
    Cardinality({ i \in 1..Len(layout) : layout[i].polarity = k })

SameMultiset ==
    \A k \in PolarityKey :
        Occurrences(args.defaults, k) = Occurrences(args.desired, k)

NoForma ==
    [regular |-> 0, universal |-> 0, umbra |-> 0, stance |-> 0, total |-> 0]

\* C8 as stated: when the default and the desired layout carry the same
\* multiset of polarities, in any arrangement over slots of any type, total
\* is 0.
C8_RelocationIsFree ==
    (FormaDone /\ SameMultiset) => ret.total = 0

\* C9: a desired layout identical to the default one costs nothing: regular,
\* universal, umbra, stance and total are all 0.
C9_IdenticalLayoutsCostNothing ==
    (FormaDone /\ args.desired = args.defaults) => ret = NoForma

C9_Witness ==
    /\ FormaDone /\ args.desired = args.defaults /\ Len(args.defaults) = 2
    /\ args.defaults[1] = [polarity |-> AP_ANY, type |-> "aura"]
    /\ args.defaults[2] = [polarity |-> AP_DEFENSE, type |-> "general"]
    /\ ret.total = 0

\* slot i is the one slot that changed, from no polarity to AP_ANY, in a
\* default layout without AP_ANY
AddsUniversalAt(i) ==
    /\ Occurrences(args.defaults, AP_ANY) = 0
    /\ args.defaults[i].polarity = undefined
    /\ args.desired[i].polarity = AP_ANY
    /\ \A j \in 1..Len(args.defaults) :
          j # i => args.desired[j] = args.defaults[j]

\* C10: putting AP_ANY on one unpolarized slot of a default layout without
\* AP_ANY, nothing else changed, costs one forma: universal = 1 on a general
\* or exilus slot, stance = 1 on an aura, stance or posture slot, and the
\* other fields are 0, total being 1.
C10_OneNewUniversal ==
    FormaDone =>
        \A i \in 1..Len(args.defaults) :
            AddsUniversalAt(i) =>
                /\ args.defaults[i].type \in {"general", "exilus"} =>
                      ret = [NoForma EXCEPT !.universal = 1, !.total = 1]
                /\ args.defaults[i].type \in {"aura", "stance", "posture"} =>
                      ret = [NoForma EXCEPT !.stance = 1, !.total = 1]

C10_Witness ==
    /\ FormaDone /\ Len(args.defaults) = 2 /\ AddsUniversalAt(2)
    /\ args.defaults[1].polarity = AP_UMBRA
    /\ args.defaults[2].type = "posture"
    /\ ret.stance = 1 /\ ret.universal = 0 /\ ret.total = 1

\* the slots whose polarity the desired layout has cleared
Cleared ==
    { i \in 1..Len(args.defaults) :
        args.defaults[i].polarity # undefined
        /\ args.desired[i].polarity = undefined }

\* the desired layout is the default one with some polarized slots cleared
OnlyClears ==
    \A i \in 1..Len(args.defaults) :
        i \notin Cleared => args.desired[i] = args.defaults[i]

\* C11: when the desired layout differs from the default one only in that k
\* polarized slots have become unpolarized, regular = k and total = k, and
\* universal, umbra and stance are 0, whatever was cleared.
C11_ClearsCostRegular ==
    (FormaDone /\ OnlyClears) =>
        ret = [NoForma EXCEPT !.regular = Cardinality(Cleared),
                              !.total = Cardinality(Cleared)]

C11_Witness ==
    /\ FormaDone /\ OnlyClears /\ Len(args.defaults) = 2
    /\ args.defaults[1] = [polarity |-> AP_ANY, type |-> "aura"]
    /\ args.defaults[2] = [polarity |-> AP_ANY, type |-> "general"]
    /\ Cardinality(Cleared) = 2
    /\ ret.regular = 2 /\ ret.total = 2

\* A: the net-new polarities, summed over the eight keys
NetAdded ==
    LET d(k) == Occurrences(args.desired, k) - Occurrences(args.defaults, k)
        pos(k) == IF d(k) > 0 THEN d(k) ELSE 0
    IN  pos(AP_ATTACK) + pos(AP_DEFENSE) + pos(AP_TACTIC) + pos(AP_WARD)
        + pos(AP_POWER) + pos(AP_PRECEPT) + pos(AP_UMBRA) + pos(AP_ANY)

\* R: the net-abandoned polarities, summed over the eight keys
NetRemoved ==
    LET d(k) == Occurrences(args.defaults, k) - Occurrences(args.desired, k)
        pos(k) == IF d(k) > 0 THEN d(k) ELSE 0
    IN  pos(AP_ATTACK) + pos(AP_DEFENSE) + pos(AP_TACTIC) + pos(AP_WARD)
        + pos(AP_POWER) + pos(AP_PRECEPT) + pos(AP_UMBRA) + pos(AP_ANY)

\* C12: every net-new and every net-abandoned polarity is charged: total >= A
\* and total >= R; total is regular + universal + umbra + stance and no field
\* is negative.
C12_ChargesEveryNetChange ==
    FormaDone =>
        /\ ret.total >= NetAdded
        /\ ret.total >= NetRemoved
        /\ ret.total = ret.regular + ret.universal + ret.umbra + ret.stance
        /\ ret.regular >= 0 /\ ret.universal >= 0
        /\ ret.umbra >= 0 /\ ret.stance >= 0

C12_Witness ==
    /\ FormaDone /\ Len(args.defaults) = 2
    /\ args.defaults[1].polarity = AP_ATTACK
    /\ args.defaults[2].polarity = AP_UMBRA
    /\ args.desired[1].polarity = AP_DEFENSE
    /\ args.desired[2].polarity = undefined
    /\ NetAdded = 1 /\ NetRemoved = 2 /\ ret.total = 2

-----------------------------------------------------------------------------
(* Properties of calculateFinalDamage, read off the finished call *)

DamageDone == pc = "done"

\* the six primary pairs and what each combines into
PairTable ==
    { <<{"Heat", "Cold"}, "Blast">>, <<{"Electricity", "Toxin"}, "Corrosive">>,
      <<{"Heat", "Toxin"}, "Gas">>, <<{"Cold", "Electricity"}, "Magnetic">>,
      <<{"Electricity", "Heat"}, "Radiation">>, <<{"Cold", "Toxin"}, "Viral">> }

\* the positions of the returned entries of a damage type
EntriesOf(type) == { k \in 1..Len(ret) : ret[k].type = type }

\* the weapon has no base damage of the given types
NoBase(types) ==
    \A i \in 1..Len(DAMAGE_TYPES) :
        DAMAGE_TYPES[i] \in types => BaseAt(args.baseDamage, i - 1) = 0

\* exactly two element mods, carrying the two elements of the pair
TwoModsOf(pair) ==
    /\ Len(args.elementMods) = 2
    /\ {args.elementMods[1].element, args.elementMods[2].element} = pair

ModSum == args.elementMods[1].value + args.elementMods[2].value

\* C13 as stated: two mods carrying a primary pair (either order) on a weapon
\* without base elemental damage give a single entry of the combined type
\* whose value is the sum of the two mod values, and no entry of either
\* primary element.
C13_Original_PairGivesExactSum ==
    DamageDone =>
        \A p \in PairTable :
            (NoBase(PrimarySet \cup SecondarySet) /\ TwoModsOf(p[1])) =>
                /\ Cardinality(EntriesOf(p[2])) = 1
                /\ \A k \in EntriesOf(p[2]) : ret[k].value = ModSum
                /\ \A e \in p[1] : EntriesOf(e) = {}

\* C13: two mods carrying a primary pair (either order) on a weapon without
\* base elemental damage give a single entry of the combined type whose value
\* is the sum of the two mod values rounded to one decimal, and no entry of
\* either primary element; this for each of the six pairs.
C13_PairGivesRoundedSum ==
    DamageDone =>
        \A p \in PairTable :
            (NoBase(PrimarySet \cup SecondarySet) /\ TwoModsOf(p[1])) =>
                /\ Cardinality(EntriesOf(p[2])) = 1
                /\ \A k \in EntriesOf(p[2]) : ret[k].value = RoundTenth(ModSum)
                /\ \A e \in p[1] : EntriesOf(e) = {}

\* Electricity listed before Heat by the caller but in the later slot: the
\* call returns a Radiation entry of 0.5 for mods of 0.35 and 0.12
C13_Witness ==
    /\ DamageDone
    /\ NoBase(PrimarySet \cup SecondarySet)
    /\ Len(args.elementMods) = 2
    /\ args.elementMods[1] = [slotIndex |-> 7, element |-> "Electricity", value |-> 35]
    /\ args.elementMods[2] = [slotIndex |-> 0, element |-> "Heat", value |-> 12]
    /\ \E k \in 1..Len(ret) : ret[k] = [type |-> "Radiation", value |-> 50]

\* the positive entries of the base damage, each rounded to one decimal
BaseEntries ==
    { [type |-> DAMAGE_TYPES[i], value |-> RoundTenth(BaseAt(args.baseDamage, i - 1))] :
        i \in { j \in 1..Len(DAMAGE_TYPES) : BaseAt(args.baseDamage, j - 1) > 0 } }

NoModsNoMultipliers == args.elementMods = <<>> /\ args.damageMultipliers = <<>>

\* C14: without element mods and multipliers the call returns exactly the
\* positive base damage entries, each with its own base value rounded to one
\* decimal: nothing combined, nothing increased, nothing duplicated.
C14_NoModsReturnsBase ==
    (DamageDone /\ NoModsNoMultipliers) =>
        /\ { ret[k] : k \in 1..Len(ret) } = BaseEntries
        /\ Len(ret) = Cardinality(BaseEntries)

\* the part of C14 about a weapon with physical damage only
C14_PhysicalOnly ==
    (DamageDone /\ NoModsNoMultipliers /\ NoBase(PrimarySet \cup SecondarySet)) =>
        /\ { ret[k] : k \in 1..Len(ret) } = BaseEntries
        /\ \A k \in 1..Len(ret) : ret[k].type \in {"Impact", "Puncture", "Slash"}

\* C15 as stated: a base secondary value s > 0 and two mods combining into
\* the same type (no innate primaries) give exactly one entry of the type,
\* with value s + a + b.
C15_Original_ExactAdditive ==
    (DamageDone /\ args.damageMultipliers = <<>>) =>
        \A p \in PairTable :
            LET s == BaseAt(args.baseDamage, IndexOf(DAMAGE_TYPES, p[2]))
            IN  (s > 0 /\ NoBase(PrimarySet) /\ TwoModsOf(p[1])) =>
                    /\ Cardinality(EntriesOf(p[2])) = 1
                    /\ \A k \in EntriesOf(p[2]) : ret[k].value = s + ModSum

\* C15: a base secondary value s > 0 and two mods combining into the same
\* type (no innate primaries, no multipliers) give exactly one entry of the
\* type, with value s + a + b rounded to one decimal.
C15_BaseAndCombinedAdd ==
    (DamageDone /\ args.damageMultipliers = <<>>) =>
        \A p \in PairTable :
            LET s == BaseAt(args.baseDamage, IndexOf(DAMAGE_TYPES, p[2]))
            IN  (s > 0 /\ NoBase(PrimarySet) /\ TwoModsOf(p[1])) =>
                    /\ Cardinality(EntriesOf(p[2])) = 1
                    /\ \A k \in EntriesOf(p[2]) :
                          ret[k].value = RoundTenth(s + ModSum)

\* base Viral 0.53 and mods Toxin 0.12, Cold 0.12: one Viral entry of 0.8
C15_Witness ==
    /\ DamageDone
    /\ args.damageMultipliers = <<>>
    /\ BaseAt(args.baseDamage, IndexOf(DAMAGE_TYPES, "Viral")) = 53
    /\ TwoModsOf({"Cold", "Toxin"})
    /\ ModSum = 24
    /\ EntriesOf("Viral") # {}
    /\ \A k \in EntriesOf("Viral") : ret[k].value = 80

-----------------------------------------------------------------------------
(* Properties of combineElements, read off the finished call *)

CombineDone == pc = "done"

OddSequence == Len(args.sequence) % 2 = 1

LastEntry == args.sequence[Len(args.sequence)]

\* the last entry of the sequence comes out as the last entry of the result,
\* under its own primary type
LastLeftAlone ==
    /\ Len(ret) > 0
    /\ ret[Len(ret)] = [type |-> LastEntry.element, value |-> LastEntry.value]

\* the last two entries of the sequence form one of the six pairs
LastTwoPair ==
    /\ Len(args.sequence) >= 2
    /\ \E p \in PairTable :
          {args.sequence[Len(args.sequence) - 1].element, LastEntry.element} = p[1]

\* C16 as stated: a sequence with an odd number of entries has its last entry
\* emitted uncombined, as its own primary damage type.
C16_Original_LastOfOddUncombined ==
    (CombineDone /\ OddSequence) => LastLeftAlone

\* C16: a sequence with an odd number of entries has an odd number of
\* entries emitted uncombined, so at least one; it is the last entry whenever
\* the last two entries form no pair.
C16_OddLeavesOneUncombined ==
    (CombineDone /\ OddSequence) =>
        /\ Cardinality({ k \in 1..Len(ret) : ret[k].type \in PrimarySet }) % 2 = 1
        /\ ~LastTwoPair => LastLeftAlone

\* Heat, Heat, Cold: Heat is emitted alone and the last entry goes into Blast
C16_Witness ==
    /\ CombineDone
    /\ Len(args.sequence) = 3
    /\ args.sequence[1].element = "Heat"
    /\ args.sequence[2].element = "Heat"
    /\ args.sequence[3].element = "Cold"
    /\ Len(ret) = 2
    /\ ret[1].type = "Heat"
    /\ ret[2].type = "Blast"

-----------------------------------------------------------------------------
(* Properties of parseModEffects, read off the finished call *)

ParseDone == pc = "done"

\* C17: the rank is clamped to the rank blocks: the bag for rank r is the bag
\* for min(r, fusion_limit), so all ranks at or above fusion_limit give the
\* bag of fusion_limit.
C17_RankClampedToBlocks ==
    ParseDone =>
        /\ ret = parseModEffects(args.mod, MathMin(args.rank, args.mod.fusion_limit[1]))
        /\ args.rank >= args.mod.fusion_limit[1] =>
               ret = parseModEffects(args.mod, args.mod.fusion_limit[1])

\* rank 2 on a mod of two blocks gives the non-zero effects of the last block
C17_Witness ==
    /\ ParseDone
    /\ args.mod.description.isArray
    /\ args.mod.fusion_limit = <<1>>
    /\ args.rank = 2
    /\ ret # ZeroBag
    /\ ret = parseBlock(args.mod.description.blocks[2], 1, ZeroBag)

-----------------------------------------------------------------------------
(* Properties of aggregateAllMods, read off the finished call *)

AggregateDone == pc = "done"

SlotOrders(n) == { f \in [1..n -> 1..n] : \A i, j \in 1..n : f[i] = f[j] => i = j }

\* the effects of one slot on its own
SlotEffects(slot) ==
    IF slot.mod = <<>> THEN ZeroBag
    ELSE parseModEffects(slot.mod[1],
                         IF slot.rank = <<>> THEN slot.mod[1].fusion_limit[1]
                         ELSE slot.rank[1])

\* the slots without slot i
Without(slots, i) == [ k \in 1..(Len(slots) - 1) |-> IF k < i THEN slots[k] ELSE slots[k + 1] ]

\* C18: the effect bag does not depend on the order of the slots; an empty
\* slot adds zero to every field; a slot with no rank adds its mod's effects
\* at fusion_limit.
C18_OrderIndependent ==
    AggregateDone =>
        LET slots == args.slots
            n == Len(slots)
        IN  /\ \A f \in SlotOrders(n) :
                  aggregateAllMods([ i \in 1..n |-> slots[f[i]] ]) = ret
            /\ \A i \in 1..n :
                  ret = AddBags(aggregateAllMods(Without(slots, i)), SlotEffects(slots[i]))
            /\ \A i \in 1..n :
                  slots[i].mod = <<>> => ret = aggregateAllMods(Without(slots, i))

\* three slots, one empty, one with no rank on the three-block mod (165%
\* Damage at max rank), one with Multishot and a Damage drawback
C18_Witness ==
    /\ AggregateDone
    /\ Len(args.slots) = 3
    /\ args.slots[1].mod = <<>>
    /\ args.slots[2].mod # <<>> /\ args.slots[2].rank = <<>>
    /\ args.slots[2].mod[1].fusion_limit = <<2>>
    /\ args.slots[3].mod # <<>> /\ args.slots[3].mod[1].fusion_limit = <<0>>
    /\ ret.baseDamage = 150
    /\ ret.multishot = 60

\* C19: a mod whose description does not decode to the block array has the
\* all-zero effect bag, and the loadout aggregates to what it aggregates to
\* without that mod.
C19_UnparseableAddsNothing ==
    AggregateDone =>
        \A i \in 1..Len(args.slots) :
            (args.slots[i].mod # <<>> /\ ~args.slots[i].mod[1].description.isArray) =>
                /\ SlotEffects(args.slots[i]) = ZeroBag
                /\ ret = aggregateAllMods(Without(args.slots, i))

\* a loadout of an undecodable mod next to a parsed one
C19_Witness ==
    /\ AggregateDone
    /\ Len(args.slots) = 2
    /\ args.slots[1].mod # <<>> /\ ~args.slots[1].mod[1].description.isArray
    /\ args.slots[2].mod # <<>> /\ args.slots[2].mod[1].description.isArray
    /\ ret # ZeroBag

-----------------------------------------------------------------------------
(* Properties of verifyAndAdjustRivenConfig, read off the finished call *)

RivenDone == pc = "done"

\* the cap of a submitted stat in the combination of the submitted config
CapOf(stat, isNegative) ==
    (RivenBaseCap[args.weaponType][stat.stat]
       * ComboMultiplier(Len(args.config.positive), args.config.negative # <<>>,
                         isNegative)) \div 1000

\* C20: in the returned config every positive value is >= 0 and at most its
\* cap, the negative value (if any) is <= 0 with magnitude at most its cap,
\* the stat names and their order are those submitted, and adjusted is true
\* whenever a returned value differs from the submitted one.
C20_ClampedWithinCapKeepingSign ==
    RivenDone =>
        LET submitted == args.config
            returned == ret.config
        IN  /\ Len(returned.positive) = Len(submitted.positive)
            /\ \A i \in 1..Len(submitted.positive) :
                  /\ returned.positive[i].stat = submitted.positive[i].stat
                  /\ returned.positive[i].value >= 0
                  /\ returned.positive[i].value <= CapOf(submitted.positive[i], FALSE)
            /\ (returned.negative = <<>>) = (submitted.negative = <<>>)
            /\ returned.negative # <<>> =>
                  /\ returned.negative[1].stat = submitted.negative[1].stat
                  /\ returned.negative[1].value <= 0
                  /\ 0 - returned.negative[1].value <= CapOf(submitted.negative[1], TRUE)
            /\ (\/ \E i \in 1..Len(submitted.positive) :
                      returned.positive[i].value # submitted.positive[i].value
                \/ /\ returned.negative # <<>>
                   /\ returned.negative[1].value # submitted.negative[1].value)
               => ret.adjusted

\* Damage 999 and Multishot 1 with Reload Speed submitted as +1 for the
\* negative stat: Damage comes down to its cap, the negative stat comes back
\* negative, adjusted is reported
C20_Witness ==
    /\ RivenDone
    /\ args.weaponType = "primary"
    /\ Len(args.config.positive) = 2
    /\ args.config.positive[1] = [stat |-> "Damage", value |-> 9990, isNegative |-> FALSE]
    /\ args.config.positive[2].stat = "Multishot"
    /\ args.config.negative = <<[stat |-> "Reload Speed", value |-> 10, isNegative |-> TRUE]>>
    /\ ret.adjusted
    /\ ret.config.positive[1].value = CapOf(args.config.positive[1], FALSE)
    /\ ret.config.positive[1].value < 9990
    /\ ret.config.negative[1].value < 0

-----------------------------------------------------------------------------
(* Properties of RivenBuilder.handleSave *)

\* the submission of the current rows fails the shape validation
SubmissionInvalid == validateRivenConfig(configToSave(args.rows, args.polarity)) # NoError

-----------------------------------------------------------------------------
(* Properties of calculateWarframeStats, read off the finished call *)

WarframeDone == pc = "done"

\* the warframe's value in hundredths, or the default when it is missing
BaseOrDefault(value, default) == IF value = <<>> THEN default ELSE value[1]

\* the pair is base and base * (1 + fraction), the fraction being pct percent
ScaledPair(pair, base, pct) ==
    /\ pair.base = base * 100
    /\ pair.modded * 100 = pair.base * (100 + pct)

\* the pair is 100 and 100 + 100 * fraction
PercentPair(pair, pct) ==
    /\ pair.base = 100 * 10000
    /\ pair.modded = 100 * 10000 + pct * 10000

NoEquippedMods == \A i \in 1..Len(args.slots) : args.slots[i].mod = <<>>

\* C22: health, shield, armor, energy and sprint speed have base = the
\* warframe's value (0 when missing, 1 for a missing sprint speed) and
\* modded = base * (1 + aggregated fraction); the four ability stats have
\* base = 100 and modded = 100 + 100 * aggregated fraction; without
\* equipped mods modded = base for every stat.
C22_WarframeStatPairs ==
    WarframeDone =>
        LET mods == aggregateAllMods(args.slots)
            wf == args.warframe
        IN  /\ ScaledPair(ret.health, BaseOrDefault(wf.health, 0), mods.health)
            /\ ScaledPair(ret.shield, BaseOrDefault(wf.shield, 0), mods.shield)
            /\ ScaledPair(ret.armor, BaseOrDefault(wf.armor, 0), mods.armor)
            /\ ScaledPair(ret.energy, BaseOrDefault(wf.power, 0), mods.energy)
            /\ ScaledPair(ret.sprintSpeed, BaseOrDefault(wf.sprint_speed, 100), mods.sprintSpeed)
            /\ PercentPair(ret.abilityStrength, mods.abilityStrength)
            /\ PercentPair(ret.abilityDuration, mods.abilityDuration)
            /\ PercentPair(ret.abilityEfficiency, mods.abilityEfficiency)
            /\ PercentPair(ret.abilityRange, mods.abilityRange)
            /\ NoEquippedMods =>
                  \A k \in DOMAIN ret : ret[k].modded = ret[k].base

\* health 300 doubled by +100% Health, a missing sprint speed of 1 raised to
\* 1.3, ability strength 199 and efficiency 45
C22_Witness ==
    /\ WarframeDone
    /\ args.warframe.health = <<30000>>
    /\ args.warframe.sprint_speed = <<>>
    /\ ret.health = [base |-> 3000000, modded |-> 6000000]
    /\ ret.sprintSpeed = [base |-> 10000, modded |-> 13000]
    /\ ret.abilityStrength.modded = 1990000
    /\ ret.abilityEfficiency.modded = 450000

-----------------------------------------------------------------------------
(* Greedy scan of combineElements, read off the finished call *)

\* two elements form one of the six pairs
ValidPair(a, b) == \E p \in PairTable : {a, b} = p[1]

\* what a pair combines into
PairResult(a, b) == (CHOOSE p \in PairTable : {a, b} = p[1])[2]

\* C23: for a sequence e1, e2, e3 in which (e1, e2) and (e2, e3) are both
\* valid pairs the result is the combination of e1 and e2 with value
\* v1 + v2 followed by e3 as its own primary type; in every sequence the
\* result accounts for the entries in order, each either alone under its own
\* type or combined with its direct successor, so that nothing combined is
\* combined again and only consecutive entries combine.
C23_GreedyLeftToRight ==
    CombineDone =>
        LET seq == args.sequence
        IN  /\ (Len(seq) = 3 /\ ValidPair(seq[1].element, seq[2].element)
                             /\ ValidPair(seq[2].element, seq[3].element)) =>
                   ret = <<[type |-> PairResult(seq[1].element, seq[2].element),
                            value |-> seq[1].value + seq[2].value],
                           [type |-> seq[3].element, value |-> seq[3].value]>>
            /\ \E starts \in [1..Len(ret) -> 1..(Len(seq) + 1)] :
                  /\ Len(ret) > 0 => starts[1] = 1
                  /\ \A k \in 1..Len(ret) :
                        LET i == starts[k]
                            next == IF k < Len(ret) THEN starts[k + 1] ELSE Len(seq) + 1
                        IN  \/ /\ next = i + 1
                               /\ ret[k] = [type |-> seq[i].element, value |-> seq[i].value]
                            \/ /\ next = i + 2
                               /\ ValidPair(seq[i].element, seq[i + 1].element)
                               /\ ret[k] = [type |-> PairResult(seq[i].element, seq[i + 1].element),
                                            value |-> seq[i].value + seq[i + 1].value]
                  /\ Len(ret) = 0 => Len(seq) = 0

\* Heat, Toxin, Cold gives Gas and Cold, not Blast
C23_Witness ==
    /\ CombineDone
    /\ Len(args.sequence) = 3
    /\ args.sequence[1].element = "Heat"
    /\ args.sequence[2].element = "Toxin"
    /\ args.sequence[3].element = "Cold"
    /\ Len(ret) = 2
    /\ ret[1].type = "Gas"
    /\ ret[2].type = "Cold"
    /\ \A k \in 1..Len(ret) : ret[k].type # "Blast"

-----------------------------------------------------------------------------
(* Properties of the element sequence, read off the finished step *)

SequenceDone == pc = "done"

\* the positions of the sorted mods carrying an element
ModsOf(element) == { k \in 1..Len(ret.sortedMods) : ret.sortedMods[k].element = element }

\* the positions of the trailing entries of an element
TrailingOf(element) ==
    { k \in 1..Len(ret.elementSequence) :
        ret.elementSequence[k].isInnate /\ ret.elementSequence[k].element = element }

\* the innate value of an element in the base damage, 0 when it has none
InnateValue(element) == BaseAt(args.baseDamage, 3 + IndexOf(PRIMARY_ELEMENTS, element))

\* C24: the sequence starts with one entry per mod, in the mods' order; an
\* innate element that some mod carries is added to the entry of the first
\* such mod in slot order and to no other, and has no trailing entry; an
\* innate element no mod carries has exactly one trailing entry with its
\* value; so each innate element is in the sequence exactly once.
C24_InnateMergedOnce ==
    SequenceDone =>
        LET seq == ret.elementSequence
            mods == ret.sortedMods
        IN  /\ Len(seq) >= Len(mods)
            /\ \A k \in 1..Len(mods) :
                  /\ seq[k].element = mods[k].element
                  /\ ~seq[k].isInnate
            /\ \A k \in (Len(mods) + 1)..Len(seq) : seq[k].isInnate
            /\ \A e \in PrimarySet :
                  LET first == CHOOSE k \in ModsOf(e) : \A l \in ModsOf(e) : k <= l
                  IN  IF ModsOf(e) # {}
                      THEN /\ seq[first].value = mods[first].value + InnateValue(e)
                           /\ \A k \in ModsOf(e) \ {first} : seq[k].value = mods[k].value
                           /\ TrailingOf(e) = {}
                      ELSE IF InnateValue(e) > 0
                           THEN /\ Cardinality(TrailingOf(e)) = 1
                                /\ \A k \in TrailingOf(e) : seq[k].value = InnateValue(e)
                           ELSE TrailingOf(e) = {}

\* innate Heat and Toxin, two Heat mods in slots 7 and 0 listed in that
\* order: the innate Heat goes into the mod of slot 0 only, Toxin trails
C24_Witness ==
    /\ SequenceDone
    /\ InnateValue("Heat") = 21
    /\ InnateValue("Toxin") = 21
    /\ args.elementMods = <<[slotIndex |-> 7, element |-> "Heat", value |-> 12],
                            [slotIndex |-> 0, element |-> "Heat", value |-> 35]>>
    /\ ret.elementSequence = <<[element |-> "Heat", value |-> 56, isInnate |-> FALSE],
                               [element |-> "Heat", value |-> 12, isInnate |-> FALSE],
                               [element |-> "Toxin", value |-> 21, isInnate |-> TRUE]>>

\* the slot indices of the listed mods are pairwise different
DistinctSlots ==
    \A i, j \in 1..Len(args.elementMods) :
        args.elementMods[i].slotIndex = args.elementMods[j].slotIndex => i = j

\* the caller lists the mods in ascending slot index
ListedInSlotOrder ==
    \A i, j \in 1..Len(args.elementMods) :
        i < j => args.elementMods[i].slotIndex <= args.elementMods[j].slotIndex

\* the orders in which the caller can list n mods
ModOrders(n) == { f \in [1..n -> 1..n] : \A i, j \in 1..n : f[i] = f[j] => i = j }

-----------------------------------------------------------------------------
(* C26 *)

\* neither layout carries AP_ANY on an aura, stance or posture slot
NoUniversalOnCapacity ==
    /\ universalCapacity(args.defaults) = 0
    /\ universalCapacity(args.desired) = 0

RegularSet == { REGULAR_POLARITIES[i] : i \in 1..Len(REGULAR_POLARITIES) }

\* the desired layout is the default layout with the regular polarity of one
\* slot replaced by another regular polarity
OneRegularReplaced ==
    /\ Len(args.defaults) = Len(args.desired)
    /\ \E i \in 1..Len(args.defaults) :
          /\ args.defaults[i].polarity \in RegularSet
          /\ args.desired[i].polarity \in RegularSet
          /\ args.defaults[i].polarity # args.desired[i].polarity
          /\ \A j \in 1..Len(args.defaults) :
                j # i => args.defaults[j].polarity = args.desired[j].polarity

\* C26: when neither layout carries AP_ANY on a capacity slot, total is the
\* larger of A (the net-added polarities) and R (the net-removed polarities);
\* replacing one regular polarity by a different regular polarity costs
\* exactly 1 regular forma and nothing else.
C26_TotalIsMaxOfAddedRemoved ==
    (FormaDone /\ NoUniversalOnCapacity) =>
        /\ ret.total = MathMax(NetAdded, NetRemoved)
        /\ OneRegularReplaced =>
              ret = [regular |-> 1, universal |-> 0, umbra |-> 0,
                     stance |-> 0, total |-> 1]

\* Attack replaced by Defense on the first slot, beside an AP_ANY that stays on
\* a general slot: one regular forma
C26_Witness ==
    /\ FormaDone /\ NoUniversalOnCapacity
    /\ Len(args.defaults) = 2
    /\ args.defaults[1].polarity = AP_ATTACK
    /\ args.desired[1].polarity = AP_DEFENSE
    /\ args.defaults[2].polarity = AP_ANY
    /\ args.desired[2].polarity = AP_ANY
    /\ args.defaults[2].type = "general"
    /\ OneRegularReplaced
    /\ NetAdded = 1 /\ NetRemoved = 1
    /\ ret.regular = 1 /\ ret.total = 1

-----------------------------------------------------------------------------
(* C27 *)

RECURSIVE SumOfValues(_, _)
\* the sum of the value fields of the entries k.. of a sequence
SumOfValues(entries, k) ==
    IF k > Len(entries) THEN 0
    ELSE entries[k].value + SumOfValues(entries, k + 1)

RECURSIVE SumOfBase(_, _)
\* the sum of the base damage array from index i on
SumOfBase(baseDamage, i) ==
    IF i >= Len(baseDamage) THEN 0
    ELSE BaseAt(baseDamage, i) + SumOfBase(baseDamage, i + 1)

\* what the call holds in its output map before the values are rounded
UnroundedOutput ==
    outputMap(args.baseDamage, args.elementMods, args.damageMultipliers)

\* C27 as stated: without multipliers the values of the output before
\* rounding add up to the base damage array plus the element mod values:
\* every unit of base damage, innate primary elements included, is counted
\* exactly once.
C27_DamageConserved ==
    (DamageDone /\ args.damageMultipliers = <<>>) =>
        SumOfValues(UnroundedOutput, 1)
          = SumOfBase(args.baseDamage, 0) + SumOfValues(args.elementMods, 1)

\* the part of C27 that holds: on a weapon without innate primary elements
\* the sum is conserved
C27_ConservedWithoutInnate ==
    (DamageDone /\ args.damageMultipliers = <<>> /\ NoBase(PrimarySet)) =>
        SumOfValues(UnroundedOutput, 1)
          = SumOfBase(args.baseDamage, 0) + SumOfValues(args.elementMods, 1)

\* with innate primary elements the output exceeds the conserved sum by
\* exactly the innate values: each of them is counted twice
C27_InnateCountedTwice ==
    (DamageDone /\ args.damageMultipliers = <<>>) =>
        SumOfValues(UnroundedOutput, 1)
          = SumOfBase(args.baseDamage, 0) + SumOfValues(args.elementMods, 1)
            + SumOfValues(identifyInnateElements(args.baseDamage), 1)

-----------------------------------------------------------------------------
(* C28 *)

CompareDispatched == pc \in {"ADD_SNAPSHOT", "REMOVE_SNAPSHOT", "CLEAR_ALL"}

\* the positions of the list whose snapshot does not carry the id, ascending
RECURSIVE KeptAfterRemove(_, _, _)
KeptAfterRemove(snapshots, id, k) ==
    IF k > Len(snapshots) THEN <<>>
    ELSE IF snapshots[k].id = id THEN KeptAfterRemove(snapshots, id, k + 1)
    ELSE <<snapshots[k]>> \o KeptAfterRemove(snapshots, id, k + 1)

\* C28: the list never holds more than 3 snapshots; ADD_SNAPSHOT appends the
\* new snapshot last and on a list of 3 drops the oldest one (the first);
\* REMOVE_SNAPSHOT drops every snapshot of the given id and keeps the others
\* in order; CLEAR_ALL empties the list.
C28_AtMostThreeFifo ==
    /\ Len(ret.snapshots) <= 3
    /\ CompareDispatched =>
          LET before == args.state.snapshots
              after == ret.snapshots
          IN  /\ pc = "ADD_SNAPSHOT" =>
                    /\ after[Len(after)] = args.action.snapshot
                    /\ Len(before) < 3 =>
                          after = before \o <<args.action.snapshot>>
                    /\ Len(before) = 3 =>
                          after = <<before[2], before[3], args.action.snapshot>>
              /\ pc = "REMOVE_SNAPSHOT" =>
                    /\ after = KeptAfterRemove(before, args.action.id, 1)
                    /\ \A k \in 1..Len(after) : after[k].id # args.action.id
              /\ pc = "CLEAR_ALL" => after = <<>>

\* a fourth snapshot added to a full list: the first one is gone, the new one
\* is last
C28_Witness ==
    /\ pc = "ADD_SNAPSHOT"
    /\ Len(args.state.snapshots) = 3
    /\ args.state.snapshots[1].id = "a"
    /\ args.state.snapshots[2].id = "b"
    /\ args.action.snapshot = [id |-> "a", timestamp |-> 2]
    /\ ret.snapshots = <<args.state.snapshots[2], args.state.snapshots[3],
                         args.action.snapshot>>

\* a removal that takes two snapshots of one id out of a list of three
C28_WitnessRemove ==
    /\ pc = "REMOVE_SNAPSHOT"
    /\ Len(args.state.snapshots) = 3
    /\ Len(ret.snapshots) = 1

-----------------------------------------------------------------------------
(* C29 *)

\* the routes with a handler suspended in its job
JobsInProgress == { r \in DOMAIN ret : ret[r] }

\* C29 as stated: no two of the import, image-download, Overframe-scrape and
\* wiki-scrape jobs are in progress together, a request answered otherwise
\* than by 409 found no job in progress, and a running flag is set exactly
\* while a job of it is in progress.
C29_OneJobAtATime ==
    /\ Cardinality(JobsInProgress) <= 1
    /\ args.importRunning = (ret.run \/ ret.images)
    /\ args.scrapeRunning = ret.scrape
    /\ args.wikiRunning = ret.wiki

\* the part of C29 that holds: each flag is set exactly while a job of it is
\* in progress, the two jobs under importRunning exclude each other, no
\* Overframe scrape starts during an import, and no wiki scrape starts during
\* any other job
C29_FlagsAndGuards ==
    /\ args.importRunning = (ret.run \/ ret.images)
    /\ args.scrapeRunning = ret.scrape
    /\ args.wikiRunning = ret.wiki
    /\ ~(ret.run /\ ret.images)
    /\ pc = "POST /scrape started, awaits scrapeIndex" =>
          JobsInProgress \subseteq {"scrape", "wiki"}
    /\ pc = "POST /wiki-scrape started, awaits runWikiScrape" =>
          JobsInProgress = {"wiki"}

\* an import, an Overframe scrape and a wiki scrape in progress together
C29_ThreeJobsTogether ==
    JobsInProgress = {"run", "scrape", "wiki"}

-----------------------------------------------------------------------------
(* C30 *)

\* the address is locked out: its record carries a locked_until in the future
LockoutInForce == lockedNow(args.data, args.now)

\* C30 as stated: while the lockout of the address is in force, whatever the
\* interleaving of its attemptLogin calls, no call returns success, none
\* clears or shortens the lockout record, and a call that is made returns the
\* lockout error without verifying the password.
C30_LockoutHoldsUnderConcurrency ==
    [][LockoutInForce =>
          /\ \A c \in Calls :
                /\ (pc[c] = "verifyPassword" /\ pc'[c] = "idle") => ret'[c] # "success"
                /\ pc[c] = "idle" =>
                      /\ pc'[c] = "idle"
                      /\ ret'[c] \in {ret[c], "Too many failed attempts. Try again later."}
          /\ args'.data # <<>>
          /\ args'.data[1].locked_until >= args.data[1].locked_until]_vars

\* the part of C30 that holds: a call made while the lockout is in force
\* returns the lockout error and is never suspended in verifyPassword, and
\* the call whose failure reaches AUTH_MAX_ATTEMPTS leaves the address locked
C30_CallWhileLockedRejected ==
    [][/\ LockoutInForce =>
            \A c \in Calls :
                pc[c] = "idle" =>
                    /\ pc'[c] = "idle"
                    /\ ret'[c] \in {ret[c], "Too many failed attempts. Try again later."}
       /\ \A c \in Calls :
            (ret[c] # ret'[c] /\ ret'[c] = "Too many failed attempts. Locked out.") =>
                lockedNow(args'.data, args'.now)]_vars

\* no time has passed: a call that started before the lockout has returned
\* success during it and left the address without a record
C30_SuccessDuringLockout ==
    /\ args.now = 0
    /\ args.data = <<>>
    /\ ret[1] = "success"
    /\ ret[2] = "Too many failed attempts. Locked out."

====
